---- MODULE Spec2Model ----
(***************************************************************************)
(* Model of the income-statement BI tool:                                  *)
(*   - DataLoader    (src/src/data_loader.py):    the Loader               *)
(*   - DataProcessor (src/src/data_processor.py): the Aggregator           *)
(*   - Application   (src/src/app.py) and its views (src/src/views)        *)
(*                                                                         *)
(* Conventions                                                             *)
(*   - Python's Optional[T] is modelled as a sequence of length <= 1:      *)
(*     None is <<>> and a present value v is <<v>>.                        *)
(*   - A text (file name, period) is the sequence of its characters, so    *)
(*     that the regular-expression search, the formatting of the period    *)
(*     and the lexicographic sort are computed, not assumed.               *)
(*   - A pandas DataFrame is a record [cols, rows]: the set of its column  *)
(*     labels and the sequence of its rows in index order.  A row carries  *)
(*     the fields the code reads; the other CSV columns are only labels.   *)
(*   - Column labels are written in ASCII:                                 *)
(*       dept_code = 部課ｺｰﾄﾞ, dept_name = 部課名, report_type = 出力帳票,  *)
(*       account_code = 科目ｺｰﾄﾞ, account_name = 科目名,                    *)
(*       prior_balance = 前残高, debit = 借方, credit = 貸方,               *)
(*       balance = 残高, start_period = 開始年月, end_period = 終了年月.    *)
(*   - A period value is a record [type, text]: a Python str, or the      *)
(*     number pandas infers for a CSV column of digits; text is its        *)
(*     characters.                                                         *)
(*   - Monetary amounts are integers; a quotient of amounts is an exact    *)
(*     fraction in lowest terms.                                           *)
(*   - The labels of the GUI's selectors are written in ASCII:             *)
(*       all = 全期間, none = データなし, all_departments = 全部門,         *)
(*       income_statement = 損益計算書, Kyotsu = 共通.                     *)
(***************************************************************************)
EXTENDS Integers, Sequences, FiniteSets, TLC

VARIABLES
    dirExists,      \* the data folder exists on disk
    files,          \* the data folder's files: file name -> file content
    _df,            \* DataLoader._df: None or the cached Ledger
    _loaded_files,  \* DataLoader._loaded_files
    lastOp,         \* the most recent Loader operation
    nloads,         \* number of load_all executions so far (saturating)
    lazyLoads,      \* how many of them a read of df triggered (saturating)
    scanned,        \* the folder as the most recent load_all execution saw it
    pdf,            \* DataProcessor.df: the Ledger the Aggregator holds
    call,           \* the most recent Aggregator query and its arguments
    result,         \* what that query returned
    app             \* the Application window: its widgets and its views

vars == <<dirExists, files, _df, _loaded_files, lastOp, nloads, lazyLoads,
          scanned, pdf, call, result, app>>

loaderVars == <<dirExists, files, _df, _loaded_files, lastOp, nloads,
                lazyLoads, scanned>>
aggVars == <<pdf, call, result>>

(***************************************************************************)
(* Bounds of the model.                                                    *)
(***************************************************************************)
NumCsvNames == 2    \* number of distinct CSV file names the folder may hold
MaxLoads == 2       \* nloads and lazyLoads count 0, 1, ..., MaxLoads-or-more
MaxRows == 3        \* longest Ledger handed to the Aggregator directly

(***************************************************************************)
(* Optional values, small helpers.                                         *)
(***************************************************************************)
None == <<>>
Some(v) == <<v>>

Min(S) == CHOOSE x \in S : \A y \in S : x <= y

Range(s) == {s[i] : i \in 1..Len(s)}

RECURSIVE SumSeq(_)
SumSeq(s) == IF s = <<>> THEN 0 ELSE s[1] + SumSeq(Tail(s))

RECURSIVE Flatten(_)
Flatten(ss) == IF ss = <<>> THEN <<>> ELSE ss[1] \o Flatten(Tail(ss))

(***************************************************************************)
(* Characters and texts.                                                   *)
(***************************************************************************)
Digits == {"0", "1", "2", "3", "4", "5", "6", "7", "8", "9"}

\* The characters of the model's file names in code-point order.
CodePointOrder ==
    <<".", "/", "0", "1", "2", "3", "4", "5", "6", "7", "8", "9", "_",
      "a", "b", "c", "d", "e", "f", "g", "h", "i", "j", "k", "l", "m",
      "n", "o", "p", "q", "r", "s", "t", "u", "v", "w", "x", "y", "z">>

Ord(c) == CHOOSE i \in 1..Len(CodePointOrder) : CodePointOrder[i] = c

\* s < t for texts, as Python compares str: by code point, a proper prefix first.
RECURSIVE TextLess(_, _)
TextLess(s, t) ==
    IF t = <<>> THEN FALSE
    ELSE IF s = <<>> THEN TRUE
    ELSE IF s[1] # t[1] THEN Ord(s[1]) < Ord(t[1])
    ELSE TextLess(Tail(s), Tail(t))

\* Mutant of sorted: descending order.
RECURSIVE sortedDescending(_)
sortedDescending(S) ==
    IF S = {} THEN <<>>
    ELSE LET m == CHOOSE x \in S : \A y \in S \ {x} : TextLess(y, x)
         IN <<m>> \o sortedDescending(S \ {m})

\* sorted(): ascending; least element first.
RECURSIVE sorted(_)
sorted(S) ==
    IF S = {} THEN <<>>
    ELSE LET m == CHOOSE x \in S : \A y \in S \ {x} : TextLess(x, y)
         IN <<m>> \o sorted(S \ {m})

\* Mutant of sortedInt: descending order.
RECURSIVE sortedIntDescending(_)
sortedIntDescending(S) ==
    IF S = {} THEN <<>>
    ELSE LET m == CHOOSE x \in S : \A y \in S : y <= x
         IN <<m>> \o sortedIntDescending(S \ {m})

\* sorted() of a set of integers.
RECURSIVE sortedInt(_)
sortedInt(S) ==
    IF S = {} THEN <<>>
    ELSE LET m == Min(S) IN <<m>> \o sortedInt(S \ {m})

(***************************************************************************)
(* File names and periods of the model.                                    *)
(***************************************************************************)
Name_2025_07 == <<"2","0","2","5","_","0","7","_","p","l",".","c","s","v">>
Name_2025_08 == <<"2","0","2","5","_","0","8","_","p","l",".","c","s","v">>
Name_plain == <<"p","l",".","c","s","v">>
Name_notes == <<"n","o","t","e","s",".","t","x","t">>

\* Names for load_file alone: two matches of the pattern; a one-digit month
\* (no match); a match that is not at the start.
Name_two ==
    <<"2","0","2","4","_","1","2","_","2","0","2","5","_","0","7","_",
      ".","c","s","v">>
Name_near == <<"2","0","2","5","_","7","_","p","l",".","c","s","v">>
Name_prefixed ==
    <<"a","_","2","0","2","5","_","0","8","_","b",".","c","s","v">>

\* CSV names in the order in which the bound admits them (not sorted).
CsvNamePool == <<Name_2025_08, Name_2025_07, Name_plain>>
CsvNames == {CsvNamePool[i] : i \in 1..NumCsvNames}
FileNames == CsvNames \cup {Name_notes}

\* Python values: a str, and the number read_csv makes of a cell of digits.
Str(t) == [type |-> "str", text |-> t]
Num(t) == [type |-> "number", text |-> t]

\* Cell texts of the in-file start-period column.
T_2025_07 == <<"2","0","2","5","/","0","7">>
T_202507 == <<"2","0","2","5","0","7">>

P_2025_07 == Str(T_2025_07)
P_2025_08 == Str(<<"2","0","2","5","/","0","8">>)
P_9999_99 == Str(<<"9","9","9","9","/","9","9">>)

(***************************************************************************)
(* DataLoader: schema.                                                     *)
(***************************************************************************)
COLUMN_NAMES ==
    {"office_code", "office_name", "office_abbr", "dept_code", "dept_name",
     "dept_abbr", "report_type", "page_break", "SEQNO", "account_code",
     "sub_code", "account_name", "sub_account_name", "account_abbr",
     "dc_class", "attr_class", "rule_class",
     "prior_balance", "debit", "credit", "balance",
     "start_period", "end_period"}

NUMERIC_COLUMNS == {"prior_balance", "debit", "credit", "balance"}

LedgerColumns == COLUMN_NAMES \cup {"source_file", "year_month"}

\* Mutant of EmptyLedger: pd.DataFrame(), a frame without columns.
EmptyLedgerNoColumns == [cols |-> {}, rows |-> <<>>]

\* pd.DataFrame(columns=COLUMN_NAMES + ['source_file', 'year_month'])
EmptyLedger == [cols |-> LedgerColumns, rows |-> <<>>]

(***************************************************************************)
(* File contents.  A CSV line gives the department, the report type, the   *)
(* account, the four monetary cells (None when blank) and start_period     *)
(* (None when empty).  A file that pd.read_csv cannot parse has ok = FALSE.*)
(***************************************************************************)
Line1 ==
    [dept_code |-> 210, dept_name |-> "Kenki", report_type |-> 0,
     account_code |-> 4199, account_name |-> "revenue",
     prior_balance |-> Some(0), debit |-> Some(0), credit |-> Some(1),
     balance |-> Some(1), start_period |-> Some(T_2025_07)]

Line2 ==
    [dept_code |-> 220, dept_name |-> "Infra", report_type |-> 0,
     account_code |-> 4199, account_name |-> "revenue",
     prior_balance |-> Some(1), debit |-> None, credit |-> Some(1),
     balance |-> Some(2), start_period |-> None]

\* The code of Line1 under another name, with a start period in digits.
Line3 ==
    [dept_code |-> 210, dept_name |-> "Kyotsu", report_type |-> 0,
     account_code |-> 4199, account_name |-> "revenue",
     prior_balance |-> Some(0), debit |-> Some(0), credit |-> Some(3),
     balance |-> Some(3), start_period |-> Some(T_202507)]

Unparsable == [ok |-> FALSE, lines |-> <<>>]
Csv(lines) == [ok |-> TRUE, lines |-> lines]

\* unparsable; header only; two lines, the first with an empty start_period
CsvContents == {Unparsable, Csv(<<>>), Csv(<<Line2, Line1>>)}

\* The file without a period in its name always holds the two lines (its
\* period is read from them); a file that is no CSV is never parsed.
ContentsOf(n) ==
    IF n = Name_plain THEN {Csv(<<Line2, Line1>>)}
    ELSE IF n \in CsvNames THEN CsvContents
    ELSE {Unparsable}

\* Contents of any lines, for the files whose period is read from them.
QueryLines == {Line1, Line2, Line3}

QueryContents ==
    {Unparsable}
        \cup {Csv(s) : s \in UNION {[1..n -> QueryLines] : n \in 0..MaxRows}}

\* Every content a folder can have over the model's file names.
Folders ==
    UNION {{f \in [S -> CsvContents] : \A n \in S : f[n] \in ContentsOf(n)}
           : S \in SUBSET FileNames}

(***************************************************************************)
(* DataLoader._extract_year_month_from_filename                            *)
(***************************************************************************)
\* The pattern (\d{4})_(\d{2})_ matches at position i of s.
MatchesAt(s, i) ==
    /\ i + 7 <= Len(s)
    /\ \A k \in 0..3 : s[i + k] \in Digits
    /\ s[i + 4] = "_"
    /\ \A k \in 5..6 : s[i + k] \in Digits
    /\ s[i + 7] = "_"

_extract_year_month_from_filename(filename) ==
    LET starts == {i \in 1..Len(filename) : MatchesAt(filename, i)}
    IN IF starts = {} THEN None
       ELSE LET i == Min(starts)
            IN Some(Str(SubSeq(filename, i, i + 3) \o <<"/">>
                        \o SubSeq(filename, i + 5, i + 6)))

(***************************************************************************)
(* DataLoader.load_file: None when pd.read_csv raises, else the frame.     *)
(***************************************************************************)
\* pd.to_numeric(..., errors='coerce').fillna(0)
to_numeric_fillna(cell) == IF cell = None THEN 0 ELSE cell[1]

\* pd.read_csv on the start-period column, then .dropna().iloc[0]: the
\* column is numeric when every non-blank cell is a number, else its cells
\* are str; None when no cell is left.
first_valid_start_period(lines) ==
    LET valid == SelectSeq(lines, LAMBDA l : l.start_period # None)
        numeric == \A i \in 1..Len(valid) :
                      Range(valid[i].start_period[1]) \subseteq Digits
    IN IF valid = <<>> THEN None
       ELSE IF numeric THEN Some(Num(valid[1].start_period[1]))
       ELSE Some(Str(valid[1].start_period[1]))

\* Mutant of year_month_of: the in-file value is preferred to the file name.
year_month_file_first(from_name, first_valid) ==
    IF first_valid = None THEN from_name ELSE first_valid

\* The period of a file: from its name, else the in-file value.
year_month_of(from_name, first_valid) ==
    IF from_name = None THEN first_valid ELSE from_name

load_file(filename, content) ==
    IF ~content.ok THEN None
    ELSE
      LET year_month ==
            year_month_of(_extract_year_month_from_filename(filename),
                          first_valid_start_period(content.lines))
          Row(l) ==
            [dept_code |-> l.dept_code, dept_name |-> l.dept_name,
             report_type |-> l.report_type,
             account_code |-> l.account_code, account_name |-> l.account_name,
             prior_balance |-> to_numeric_fillna(l.prior_balance),
             debit |-> to_numeric_fillna(l.debit),
             credit |-> to_numeric_fillna(l.credit),
             balance |-> to_numeric_fillna(l.balance),
             source_file |-> filename, year_month |-> year_month]
      IN Some([cols |-> LedgerColumns,
               rows |-> [i \in 1..Len(content.lines) |-> Row(content.lines[i])]])

(***************************************************************************)
(* DataLoader.load_all                                                     *)
(***************************************************************************)
\* name ends with ".csv"
IsCsv(name) ==
    /\ Len(name) >= 4
    /\ SubSeq(name, Len(name) - 3, Len(name)) = <<".", "c", "s", "v">>

\* self.data_folder.glob("*.csv"): the matching names, in no particular order
glob_csv(fs) == {n \in DOMAIN fs : IsCsv(n)}

\* pd.concat(dfs, ignore_index=True)
concat(dfs) ==
    [cols |-> UNION {dfs[i].cols : i \in 1..Len(dfs)},
     rows |-> Flatten([i \in 1..Len(dfs) |-> dfs[i].rows])]

\* Mutant of LoadLoop: the first file that raises ends the loop.
RECURSIVE LoadLoopStopping(_, _, _, _, _)
LoadLoopStopping(fs, csv_files, i, dfs, loaded) ==
    IF i > Len(csv_files) THEN [dfs |-> dfs, loaded |-> loaded]
    ELSE LET df == load_file(csv_files[i], fs[csv_files[i]])
         IN IF df = None
            THEN [dfs |-> dfs, loaded |-> loaded]
            ELSE LoadLoopStopping(fs, csv_files, i + 1,
                                  Append(dfs, df[1]),
                                  Append(loaded, csv_files[i]))

\* The for loop of load_all over csv_files from position i on, with the
\* frames and names collected so far; a file that raises is skipped.
RECURSIVE LoadLoop(_, _, _, _, _)
LoadLoop(fs, csv_files, i, dfs, loaded) ==
    IF i > Len(csv_files) THEN [dfs |-> dfs, loaded |-> loaded]
    ELSE LET df == load_file(csv_files[i], fs[csv_files[i]])
         IN IF df = None
            THEN LoadLoop(fs, csv_files, i + 1, dfs, loaded)
            ELSE LoadLoop(fs, csv_files, i + 1,
                          Append(dfs, df[1]), Append(loaded, csv_files[i]))

\* The folder's csv files in load order.
csv_files_of(fs) == sorted(glob_csv(fs))

\* load_all on a folder (exists, fs) with _loaded_files = loaded: the values
\* of the folder's existence, _df and _loaded_files when it returns.
load_all(exists, fs, loaded) ==
    IF ~exists
    THEN [exists |-> TRUE, df |-> EmptyLedger, loaded_files |-> loaded]
    ELSE
      LET csv_files == csv_files_of(fs)
      IN IF csv_files = <<>>
         THEN [exists |-> TRUE, df |-> EmptyLedger, loaded_files |-> loaded]
         ELSE LET got == LoadLoop(fs, csv_files, 1, <<>>, <<>>)
              IN [exists |-> TRUE,
                  df |-> IF got.dfs # <<>> THEN concat(got.dfs)
                         ELSE EmptyLedger,
                  loaded_files |-> got.loaded]

(***************************************************************************)
(* Outcome of a call: a returned value, or the exception raised.           *)
(***************************************************************************)
Return(v) == [raised |-> "none", value |-> <<v>>]
Raise(e) == [raised |-> e, value |-> <<>>]

(***************************************************************************)
(* pandas helpers.                                                         *)
(***************************************************************************)
\* df[c] == v: the boolean mask over the rows
Eq(df, c, v) == [i \in 1..Len(df.rows) |-> df.rows[i][c] = v]

\* The rows from position i on where the mask is true, in index order.
RECURSIVE Picked(_, _, _)
Picked(rows, mask, i) ==
    IF i > Len(rows) THEN <<>>
    ELSE (IF mask[i] THEN <<rows[i]>> ELSE <<>>) \o Picked(rows, mask, i + 1)

\* df[mask]: the rows where the mask is true, in index order, same columns
Where(df, mask) == [cols |-> df.cols, rows |-> Picked(df.rows, mask, 1)]

\* df[c] as a sequence
Column(df, c) == [i \in 1..Len(df.rows) |-> df.rows[i][c]]

\* Series.unique(): the distinct values in order of first appearance
RECURSIVE unique(_)
unique(s) ==
    IF s = <<>> THEN <<>>
    ELSE LET init == unique(SubSeq(s, 1, Len(s) - 1))
             x == s[Len(s)]
         IN IF x \in Range(init) THEN init ELSE Append(init, x)

\* pd.DataFrame(results) for a list of dicts with the given keys: a frame
\* built from an empty list has no columns at all.
DataFrameOf(results, keys) ==
    IF results = <<>> THEN [cols |-> {}, rows |-> <<>>]
    ELSE [cols |-> keys, rows |-> results]

(***************************************************************************)
(* DataLoader: queries on the Ledger that the df property returns.         *)
(***************************************************************************)
\* a < b for two Python values of one type: numbers by value, str by code
\* point.
ValueLess(a, b) ==
    IF a.type = "number"
    THEN \/ Len(a.text) < Len(b.text)
         \/ Len(a.text) = Len(b.text) /\ TextLess(a.text, b.text)
    ELSE TextLess(a.text, b.text)

\* sorted() of a list of distinct values of one type.
RECURSIVE sorted_values(_)
sorted_values(s) ==
    IF s = <<>> THEN <<>>
    ELSE LET m == CHOOSE x \in Range(s) :
                     \A y \in Range(s) \ {x} : ValueLess(x, y)
         IN <<m>> \o sorted_values(SelectSeq(s, LAMBDA v : v # m))

\* Series.dropna() of an Optional column: the values that are present.
dropna(col) ==
    LET present == SelectSeq(col, LAMBDA c : c # None)
    IN [i \in 1..Len(present) |-> present[i][1]]

\* DataLoader.get_periods: sorted() raises TypeError when it has to compare
\* a str with a number.
get_periods(df) ==
    IF df.rows = <<>> THEN Return(<<>>)
    ELSE LET periods == unique(dropna(Column(df, "year_month")))
         IN IF Cardinality({periods[i].type : i \in 1..Len(periods)}) > 1
            THEN Raise("TypeError")
            ELSE Return(sorted_values(periods))

\* DataLoader.get_latest_period: periods[-1] if periods else None
get_latest_period(df) ==
    LET periods == get_periods(df)
    IN IF periods.raised # "none" THEN periods
       ELSE IF periods.value[1] # <<>>
            THEN Return(Some(periods.value[1][Len(periods.value[1])]))
            ELSE Return(None)

\* df[[dept_code, dept_name]].drop_duplicates(): the distinct pairs in order
\* of first appearance.
dept_pairs(df) ==
    unique([i \in 1..Len(df.rows) |->
               <<df.rows[i].dept_code, df.rows[i].dept_name>>])

\* Mutant of get_departments: the pairs are not sorted.
departments_unsorted(df) ==
    IF df.rows = <<>> THEN {<<>>} ELSE {dept_pairs(df)}

\* DataLoader.get_departments: the lists it can return.  sort_values sorts
\* by the code alone with an unstable sort, so pairs of one code come in
\* either order.
get_departments(df) ==
    IF df.rows = <<>> THEN {<<>>}
    ELSE LET pairs == dept_pairs(df)
             n == Len(pairs)
         IN {s \in [1..n -> Range(pairs)] :
                /\ Range(s) = Range(pairs)
                /\ \A i, j \in 1..n : i < j => s[i][1] <= s[j][1]}

(***************************************************************************)
(* Exact fractions for the margin ratios.                                  *)
(***************************************************************************)
Abs(n) == IF n < 0 THEN -n ELSE n

RECURSIVE Gcd(_, _)
Gcd(a, b) == IF b = 0 THEN a ELSE Gcd(b, a % b)

\* n / d in lowest terms with a positive denominator (d # 0)
Frac(n, d) ==
    LET g == Gcd(Abs(n), Abs(d))
        s == IF d < 0 THEN -1 ELSE 1
    IN [num |-> (s * n) \div g, den |-> (s * d) \div g]

Zero == [num |-> 0, den |-> 1]

(***************************************************************************)
(* DataProcessor                                                           *)
(***************************************************************************)
ACCOUNT_CODES ==
    [revenue |-> 4199, cost_of_sales |-> 5399, gross_profit |-> 5400,
     sga |-> 6299, operating_income |-> 7000, non_op_revenue |-> 7199,
     non_op_expense |-> 7599, ordinary_income |-> 8000,
     extra_income |-> 8199, extra_loss |-> 8299, pretax_income |-> 8300,
     net_income |-> 9000,
     material_cost |-> 5419, labor_cost |-> 5439, expense_cost |-> 5469,
     mfg_cost |-> 5299]

filter_by_department(df, dept_code) ==
    IF dept_code = None THEN df
    ELSE Where(df, Eq(df, "dept_code", dept_code[1]))

filter_by_period(df, year_month) ==
    IF year_month = None THEN df
    ELSE Where(df, Eq(df, "year_month", year_month))

get_main_accounts(df) == Where(df, Eq(df, "report_type", 0))

\* Mutant of get_cost_breakdown: the main accounts are taken.
cost_breakdown_from_main(df) == Where(df, Eq(df, "report_type", 0))

get_cost_breakdown(df) == Where(df, Eq(df, "report_type", 1))

\* Mutant of get_account_value: .iloc[-1], the last matching row.
get_account_value_last(df, account_code, value_column) ==
    LET row == Where(df, Eq(df, "account_code", account_code))
    IN IF row.rows = <<>> THEN 0
       ELSE row.rows[Len(row.rows)][value_column]

get_account_value(df, account_code, value_column) ==
    LET row == Where(df, Eq(df, "account_code", account_code))
    IN IF row.rows = <<>> THEN 0 ELSE row.rows[1][value_column]

\* Mutant of Filtered: the period mask is applied to self.df, not to the
\* rows the department mask kept.
FilteredFromWhole(df, dept_code, year_month) ==
    IF year_month # None
    THEN Where(df, Eq(df, "year_month", year_month))
    ELSE IF dept_code = None THEN df
    ELSE Where(df, Eq(df, "dept_code", dept_code[1]))

\* The filtering every query starts with: filtered = self.df.copy(), then
\* the department mask if dept_code is given, then the period mask.
Filtered(df, dept_code, year_month) ==
    LET byDept == IF dept_code = None THEN df
                  ELSE Where(df, Eq(df, "dept_code", dept_code[1]))
    IN IF year_month = None THEN byDept
       ELSE Where(byDept, Eq(byDept, "year_month", year_month))

\* The columns the filtering reads; reading a missing column raises KeyError.
FilterColumns(dept_code, year_month) ==
    (IF dept_code = None THEN {} ELSE {"dept_code"})
        \cup (IF year_month = None THEN {} ELSE {"year_month"})

\* The columns calculate_kpi and the per-department queries read whatever
\* the rows are.
ColumnsRead(dept_code, year_month) ==
    {"dept_code", "report_type", "account_code"}
        \cup FilterColumns(dept_code, year_month)

\* main_df[main_df[dept_code] == code]
DeptRows(df, code) == Where(df, Eq(df, "dept_code", code))

\* Mutant of SumPerDepartment: the balance column summed over all rows.
SumOfColumn(df, account_code) ==
    SumSeq(Column(Where(df, Eq(df, "account_code", account_code)),
                  "balance"))

\* The company-wide loop: for code in df[dept_code].unique(), accumulate
\* get_account_value of the department's rows.
SumPerDepartment(df, account_code) ==
    LET codes == unique(Column(df, "dept_code"))
    IN SumSeq([i \in 1..Len(codes) |->
                  get_account_value(DeptRows(df, codes[i]), account_code,
                                    "balance")])

\* profit / revenue * 100: None when Python raises ZeroDivisionError
Percent(profit, revenue) ==
    IF revenue = 0 THEN None ELSE Some(Frac(profit * 100, revenue))

\* Mutant of Margin: the division without the revenue test.
MarginUnguarded(profit, revenue) == Percent(profit, revenue)

\* (profit / revenue * 100) if revenue != 0 else 0
Margin(profit, revenue) ==
    IF revenue # 0 THEN Percent(profit, revenue) ELSE Some(Zero)

KpiAmounts ==
    {"revenue", "cost_of_sales", "gross_profit", "sga", "operating_income",
     "ordinary_income", "net_income"}

KpiMargins == {"gross_margin", "op_margin", "ord_margin", "net_margin"}

\* The amount of one KPI field over the main accounts.
KpiAmount(main_df, dept_code, field) ==
    IF dept_code = None
    THEN SumPerDepartment(main_df, ACCOUNT_CODES[field])
    ELSE get_account_value(main_df, ACCOUNT_CODES[field], "balance")

calculate_kpi(df, dept_code, year_month) ==
    IF ~(ColumnsRead(dept_code, year_month) \subseteq df.cols)
    THEN Raise("KeyError")
    ELSE
      LET main_df == get_main_accounts(Filtered(df, dept_code, year_month))
          amt == [f \in KpiAmounts |-> KpiAmount(main_df, dept_code, f)]
          gross_margin == Margin(amt.gross_profit, amt.revenue)
          op_margin == Margin(amt.operating_income, amt.revenue)
          ord_margin == Margin(amt.ordinary_income, amt.revenue)
          net_margin == Margin(amt.net_income, amt.revenue)
      IN IF None \in {gross_margin, op_margin, ord_margin, net_margin}
         THEN Raise("ZeroDivisionError")
         ELSE Return(
                [revenue |-> amt.revenue,
                 cost_of_sales |-> amt.cost_of_sales,
                 gross_profit |-> amt.gross_profit,
                 sga |-> amt.sga,
                 operating_income |-> amt.operating_income,
                 ordinary_income |-> amt.ordinary_income,
                 net_income |-> amt.net_income,
                 gross_margin |-> gross_margin[1],
                 op_margin |-> op_margin[1],
                 ord_margin |-> ord_margin[1],
                 net_margin |-> net_margin[1]])

CostFields == {"material_cost", "labor_cost", "expense", "mfg_cost"}

\* One amount of get_cost_structure over a partition of the filtered rows.
CostAmount(part, dept_code, account_code) ==
    IF dept_code = None
    THEN SumPerDepartment(part, account_code)
    ELSE get_account_value(part, account_code, "balance")

get_cost_structure(df, dept_code, year_month) ==
    IF ~(ColumnsRead(dept_code, year_month) \subseteq df.cols)
    THEN Raise("KeyError")
    ELSE
      LET filtered == Filtered(df, dept_code, year_month)
          cost_df == get_cost_breakdown(filtered)
          main_df == get_main_accounts(filtered)
      IN Return(
           [material_cost |->
                CostAmount(cost_df, dept_code, ACCOUNT_CODES.material_cost),
            labor_cost |->
                CostAmount(cost_df, dept_code, ACCOUNT_CODES.labor_cost),
            expense |->
                CostAmount(cost_df, dept_code, ACCOUNT_CODES.expense_cost),
            mfg_cost |->
                CostAmount(main_df, dept_code, ACCOUNT_CODES.mfg_cost)])

(***************************************************************************)
(* Names of departments and accounts, and their order as Python compares   *)
(* str (code points: upper case before lower case).                        *)
(***************************************************************************)
NamesInOrder ==
    <<"Infra", "Kenki", "Kyotsu",
      "cost_of_sales", "expense_cost", "gross_profit", "labor_cost",
      "material_cost", "mfg_cost", "net_income", "operating_income",
      "ordinary_income", "revenue", "sga", "sga_item_a", "sga_item_b">>

NameRank(n) == CHOOSE i \in 1..Len(NamesInOrder) : NamesInOrder[i] = n

(***************************************************************************)
(* DataProcessor: tabular queries.                                         *)
(***************************************************************************)
BreakdownColumns ==
    {"dept_code", "dept_name", "revenue", "gross_profit", "operating_income",
     "ordinary_income", "gross_margin", "op_margin"}

get_department_breakdown(df, year_month) ==
    IF ~(ColumnsRead(None, year_month) \subseteq df.cols)
    THEN Raise("KeyError")
    ELSE
      LET main_df == get_main_accounts(Filtered(df, None, year_month))
          codes == sortedInt(Range(unique(Column(main_df, "dept_code"))))
          Rec(code) ==
            LET dept_df == DeptRows(main_df, code)
                revenue == get_account_value(dept_df, ACCOUNT_CODES.revenue,
                                             "balance")
                gross_profit ==
                    get_account_value(dept_df, ACCOUNT_CODES.gross_profit,
                                      "balance")
                operating_income ==
                    get_account_value(dept_df, ACCOUNT_CODES.operating_income,
                                      "balance")
                ordinary_income ==
                    get_account_value(dept_df, ACCOUNT_CODES.ordinary_income,
                                      "balance")
            IN [dept_code |-> code,
                dept_name |-> IF dept_df.rows # <<>>
                              THEN dept_df.rows[1].dept_name ELSE "",
                revenue |-> revenue,
                gross_profit |-> gross_profit,
                operating_income |-> operating_income,
                ordinary_income |-> ordinary_income,
                gross_margin |-> Margin(gross_profit, revenue),
                op_margin |-> Margin(operating_income, revenue)]
          results == [i \in 1..Len(codes) |-> Rec(codes[i])]
      IN IF \E i \in 1..Len(results) :
              None \in {results[i].gross_margin, results[i].op_margin}
         THEN Raise("ZeroDivisionError")
         ELSE Return(DataFrameOf(
                [i \in 1..Len(results) |->
                    [results[i] EXCEPT !.gross_margin = @[1],
                                       !.op_margin = @[1]]],
                BreakdownColumns))

CostByDeptColumns ==
    {"dept_code", "dept_name", "material_cost", "labor_cost", "expense",
     "mfg_cost"}

get_cost_breakdown_by_dept(df, year_month) ==
    IF ~(ColumnsRead(None, year_month) \subseteq df.cols)
    THEN Raise("KeyError")
    ELSE
      LET filtered == Filtered(df, None, year_month)
          cost_df == get_cost_breakdown(filtered)
          main_df == get_main_accounts(filtered)
          codes == sortedInt(Range(unique(Column(cost_df, "dept_code"))))
          Rec(code) ==
            LET dept_cost == DeptRows(cost_df, code)
                dept_main == DeptRows(main_df, code)
            IN [dept_code |-> code,
                dept_name |-> IF dept_cost.rows # <<>>
                              THEN dept_cost.rows[1].dept_name ELSE "",
                material_cost |->
                    get_account_value(dept_cost, ACCOUNT_CODES.material_cost,
                                      "balance"),
                labor_cost |->
                    get_account_value(dept_cost, ACCOUNT_CODES.labor_cost,
                                      "balance"),
                expense |->
                    get_account_value(dept_cost, ACCOUNT_CODES.expense_cost,
                                      "balance"),
                mfg_cost |->
                    get_account_value(dept_main, ACCOUNT_CODES.mfg_cost,
                                      "balance")]
      IN Return(DataFrameOf([i \in 1..Len(codes) |-> Rec(codes[i])],
                            CostByDeptColumns))

\* Mutant of sga_range: the summary code 6299 is in the range.
sga_range_closed(code) == code >= 6000 /\ code <= 6299

\* (account_code >= 6000) & (account_code < 6299)
sga_range(code) == code >= 6000 /\ code < 6299

\* A stable sort: x goes behind every element that does not come after it.
RECURSIVE InsertByAmountDesc(_, _)
InsertByAmountDesc(x, s) ==
    IF s = <<>> THEN <<x>>
    ELSE IF x.amount > s[1].amount THEN <<x>> \o s
    ELSE <<s[1]>> \o InsertByAmountDesc(x, Tail(s))

\* Mutant of SortByAmountDesc: the entries stay in the order of the loop.
InLoopOrder(s) == s

\* sort_values('amount', ascending=False)
RECURSIVE SortByAmountDesc(_)
SortByAmountDesc(s) ==
    IF s = <<>> THEN <<>>
    ELSE InsertByAmountDesc(s[Len(s)],
                            SortByAmountDesc(SubSeq(s, 1, Len(s) - 1)))

SgaColumns == {"account_code", "account_name", "amount"}

get_sga_breakdown(df, dept_code, year_month) ==
    IF ~(({"report_type", "account_code"}
            \cup FilterColumns(dept_code, year_month)) \subseteq df.cols)
    THEN Raise("KeyError")
    ELSE
      LET main_df == get_main_accounts(Filtered(df, dept_code, year_month))
          sga_df == Where(main_df,
                          [i \in 1..Len(main_df.rows) |->
                              sga_range(main_df.rows[i].account_code)])
          codes == unique(Column(sga_df, "account_code"))
          Rec(code) ==
            LET item_df == Where(sga_df, Eq(sga_df, "account_code", code))
            IN [account_code |-> code,
                account_name |-> IF item_df.rows # <<>>
                                 THEN item_df.rows[1].account_name ELSE "",
                amount |-> SumSeq(Column(item_df, "balance"))]
          all == [i \in 1..Len(codes) |-> Rec(codes[i])]
          results == SelectSeq(all, LAMBDA e : e.amount # 0)
          result_df == DataFrameOf(results, SgaColumns)
      IN Return(IF result_df.rows # <<>>
                THEN [result_df EXCEPT !.rows = SortByAmountDesc(@)]
                ELSE result_df)

DetailLess(a, b) ==
    \/ NameRank(a.dept_name) < NameRank(b.dept_name)
    \/ /\ a.dept_name = b.dept_name
       /\ NameRank(a.account_name) < NameRank(b.account_name)

RECURSIVE InsertDetail(_, _)
InsertDetail(x, s) ==
    IF s = <<>> THEN <<x>>
    ELSE IF DetailLess(x, s[1]) THEN <<x>> \o s
    ELSE <<s[1]>> \o InsertDetail(x, Tail(s))

\* Mutant of SortDetail: the rows stay in Ledger order.
InLedgerOrder(s) == s

\* sort_values(['dept_name', 'account_name'])
RECURSIVE SortDetail(_)
SortDetail(s) ==
    IF s = <<>> THEN <<>>
    ELSE InsertDetail(s[Len(s)], SortDetail(SubSeq(s, 1, Len(s) - 1)))

display_cols ==
    {"dept_name", "account_name", "prior_balance", "debit", "credit",
     "balance"}

get_detail_data(df, dept_code, year_month, output_type) ==
    IF ~((display_cols \cup {"report_type"}
            \cup FilterColumns(dept_code, year_month)) \subseteq df.cols)
    THEN Raise("KeyError")
    ELSE
      LET selected == Filtered(df, dept_code, year_month)
          filtered == Where(selected,
                            Eq(selected, "report_type", output_type))
          projected == [i \in 1..Len(filtered.rows) |->
                           [c \in display_cols |-> filtered.rows[i][c]]]
      IN Return([cols |-> display_cols, rows |-> SortDetail(projected)])

(***************************************************************************)
(* Loader operations as actions.                                           *)
(***************************************************************************)
Folder == [exists |-> dirExists, files |-> files]

Counted(n) == IF n < MaxLoads THEN n + 1 ELSE n

\* One execution of load_all's body on the folder as it is now.
RunLoadAll(loaded) ==
    LET r == load_all(dirExists, files, loaded)
    IN /\ dirExists' = r.exists
       /\ _df' = Some(r.df)
       /\ _loaded_files' = r.loaded_files
       /\ nloads' = Counted(nloads)
       /\ scanned' = Some(Folder)
       /\ UNCHANGED files

\* loader.load_all()
LoadAll ==
    /\ RunLoadAll(_loaded_files)
    /\ lastOp' = "load_all"
    /\ UNCHANGED <<lazyLoads, aggVars, app>>

\* Mutant of Reload: _df is not cleared, so the cached Ledger is returned.
ReloadFromCache ==
    /\ IF _df = None
       THEN RunLoadAll(<<>>)
       ELSE /\ _loaded_files' = <<>>
            /\ UNCHANGED <<dirExists, files, _df, nloads, scanned>>
    /\ lastOp' = "reload"
    /\ UNCHANGED <<lazyLoads, aggVars, app>>

\* loader.reload(): _df = None, _loaded_files = [], then load_all()
Reload ==
    /\ RunLoadAll(<<>>)
    /\ lastOp' = "reload"
    /\ UNCHANGED <<lazyLoads, aggVars, app>>

\* Mutant of AccessDf: load_all on every read.
AccessDfAlwaysLoads ==
    /\ RunLoadAll(_loaded_files)
    /\ lazyLoads' = Counted(lazyLoads)
    /\ lastOp' = "df"
    /\ UNCHANGED <<aggVars, app>>

\* loader.df
AccessDf ==
    /\ IF _df = None
       THEN /\ RunLoadAll(_loaded_files)
            /\ lazyLoads' = Counted(lazyLoads)
       ELSE UNCHANGED <<dirExists, files, _df, _loaded_files, nloads,
                        lazyLoads, scanned>>
    /\ lastOp' = "df"
    /\ UNCHANGED <<aggVars, app>>

(***************************************************************************)
(* The environment changes the data folder between Loader operations.      *)
(***************************************************************************)
WriteFile ==
    /\ dirExists
    /\ \E n \in FileNames : \E c \in ContentsOf(n) :
          /\ ~(n \in DOMAIN files /\ files[n] = c)
          /\ files' = [m \in DOMAIN files \cup {n} |->
                          IF m = n THEN c ELSE files[m]]
    /\ UNCHANGED <<dirExists, _df, _loaded_files, lastOp, nloads, lazyLoads,
                   scanned, aggVars, app>>

DeleteFile ==
    /\ dirExists
    /\ \E n \in DOMAIN files :
          files' = [m \in DOMAIN files \ {n} |-> files[m]]
    /\ UNCHANGED <<dirExists, _df, _loaded_files, lastOp, nloads, lazyLoads,
                   scanned, aggVars, app>>

RemoveFolder ==
    /\ dirExists
    /\ dirExists' = FALSE
    /\ files' = <<>>
    /\ UNCHANGED <<_df, _loaded_files, lastOp, nloads, lazyLoads, scanned,
                   aggVars, app>>

(***************************************************************************)
(* The Loader's specification: a new DataLoader over any folder.           *)
(***************************************************************************)
NoCall == [op |-> "none"]

\* No Application has been constructed.
NotStarted == [status |-> "off"]

\* DataLoader.__init__
NewLoader ==
    /\ _df = None
    /\ _loaded_files = <<>>
    /\ lastOp = "init"
    /\ nloads = 0
    /\ lazyLoads = 0
    /\ scanned = None

Init ==
    /\ dirExists \in BOOLEAN
    /\ files \in Folders
    /\ (~dirExists => files = <<>>)
    /\ NewLoader
    /\ pdf = None
    /\ call = NoCall
    /\ result = None
    /\ app = NotStarted

Next ==
    \/ LoadAll
    \/ Reload
    \/ AccessDf
    \/ WriteFile
    \/ DeleteFile
    \/ RemoveFolder

Spec == Init /\ [][Next]_vars

(***************************************************************************)
(* Aggregator queries as actions: a DataProcessor built over a Ledger      *)
(* answers one query.                                                      *)
(***************************************************************************)
DeptArgs == {None, Some(210), Some(999)}
PeriodArgs == {None, Some(P_2025_07), Some(P_9999_99)}
OutputTypeArgs == {0, 1}

CalculateKpi ==
    /\ call = NoCall
    /\ \E d \in DeptArgs, p \in PeriodArgs :
          /\ call' = [op |-> "calculate_kpi", dept_code |-> d,
                      year_month |-> p]
          /\ result' = calculate_kpi(pdf[1], d, p)
    /\ UNCHANGED <<loaderVars, pdf, app>>

GetDepartmentBreakdown ==
    /\ call = NoCall
    /\ \E p \in PeriodArgs :
          /\ call' = [op |-> "get_department_breakdown", year_month |-> p]
          /\ result' = get_department_breakdown(pdf[1], p)
    /\ UNCHANGED <<loaderVars, pdf, app>>

GetCostBreakdownByDept ==
    /\ call = NoCall
    /\ \E p \in PeriodArgs :
          /\ call' = [op |-> "get_cost_breakdown_by_dept", year_month |-> p]
          /\ result' = get_cost_breakdown_by_dept(pdf[1], p)
    /\ UNCHANGED <<loaderVars, pdf, app>>

GetSgaBreakdown ==
    /\ call = NoCall
    /\ \E d \in DeptArgs, p \in PeriodArgs :
          /\ call' = [op |-> "get_sga_breakdown", dept_code |-> d,
                      year_month |-> p]
          /\ result' = get_sga_breakdown(pdf[1], d, p)
    /\ UNCHANGED <<loaderVars, pdf, app>>

GetDetailData ==
    /\ call = NoCall
    /\ \E d \in DeptArgs, p \in PeriodArgs, t \in OutputTypeArgs :
          /\ call' = [op |-> "get_detail_data", dept_code |-> d,
                      year_month |-> p, output_type |-> t]
          /\ result' = get_detail_data(pdf[1], d, p, t)
    /\ UNCHANGED <<loaderVars, pdf, app>>

GetCostStructure ==
    /\ call = NoCall
    /\ \E d \in DeptArgs, p \in PeriodArgs :
          /\ call' = [op |-> "get_cost_structure", dept_code |-> d,
                      year_month |-> p]
          /\ result' = get_cost_structure(pdf[1], d, p)
    /\ UNCHANGED <<loaderVars, pdf, app>>

AccountArgs == {4199, 6100, 99999}
ValueColumnArgs == {"balance", "debit"}

\* processor.get_account_value(self.df, account_code, value_column)
GetAccountValue ==
    /\ call = NoCall
    /\ \E a \in AccountArgs, c \in ValueColumnArgs :
          /\ call' = [op |-> "get_account_value", account_code |-> a,
                      value_column |-> c]
          /\ result' = Return(get_account_value(pdf[1], a, c))
    /\ UNCHANGED <<loaderVars, pdf, app>>

(***************************************************************************)
(* Ledgers handed to the Aggregator: what load_all builds from files whose *)
(* lines are drawn from a set of rows.                                     *)
(***************************************************************************)
DeptNameOf(code) == IF code = 210 THEN "Kenki" ELSE "Infra"

AccountNameOf(code) ==
    CASE code = 4199 -> "revenue"
      [] code = 5399 -> "cost_of_sales"
      [] code = 5400 -> "gross_profit"
      [] code = 6299 -> "sga"
      [] code = 7000 -> "operating_income"
      [] code = 8000 -> "ordinary_income"
      [] code = 9000 -> "net_income"
      [] code = 5419 -> "material_cost"
      [] code = 5439 -> "labor_cost"
      [] code = 5469 -> "expense_cost"
      [] code = 5299 -> "mfg_cost"
      [] code = 6100 -> "sga_item_a"
      [] OTHER -> "sga_item_b"

SourceOf(period) ==
    IF period = P_2025_07 THEN Name_2025_07 ELSE Name_2025_08

\* A Ledger row as load_file produces it.
LedgerRow(dept, type, code, bal, period) ==
    [dept_code |-> dept, dept_name |-> DeptNameOf(dept),
     report_type |-> type,
     account_code |-> code, account_name |-> AccountNameOf(code),
     prior_balance |-> 0, debit |-> 0, credit |-> bal, balance |-> bal,
     source_file |-> SourceOf(period), year_month |-> Some(period)]

Ledgers(rows) ==
    {[cols |-> LedgerColumns, rows |-> s] :
        s \in UNION {[1..n -> rows] : n \in 0..MaxRows}}

\* Rows for the KPI queries: revenue rows of two departments whose balances
\* can cancel, a second revenue row of the first department in another
\* period; one row of every other KPI account; a report_type-1 row with the
\* revenue code.
KpiRows ==
    {LedgerRow(210, 0, 4199, 1, P_2025_07),
     LedgerRow(210, 0, 4199, 2, P_2025_08),
     LedgerRow(220, 0, 4199, -1, P_2025_07),
     LedgerRow(210, 0, 5399, 2, P_2025_07),
     LedgerRow(210, 0, 5400, 3, P_2025_07),
     LedgerRow(210, 0, 6299, 4, P_2025_07),
     LedgerRow(210, 0, 7000, 5, P_2025_07),
     LedgerRow(210, 0, 8000, 6, P_2025_07),
     LedgerRow(210, 0, 9000, 7, P_2025_07),
     LedgerRow(210, 1, 4199, 1, P_2025_07)}

\* Rows for the tabular queries.
TabRows ==
    {LedgerRow(210, 0, 4199, 1, P_2025_07),
     LedgerRow(220, 0, 4199, 2, P_2025_07),
     LedgerRow(210, 0, 6100, 1, P_2025_07),
     LedgerRow(210, 0, 5299, 3, P_2025_08),
     LedgerRow(210, 1, 5419, 1, P_2025_07),
     LedgerRow(220, 1, 5439, 1, P_2025_08)}

\* No Loader activity: the folder is absent and the Loader is new.
LoaderIdle ==
    /\ dirExists = FALSE
    /\ files = <<>>
    /\ NewLoader

InitKpi ==
    /\ LoaderIdle
    /\ pdf \in {Some(l) : l \in Ledgers(KpiRows)}
    /\ call = NoCall
    /\ result = None
    /\ app = NotStarted

NextKpi == CalculateKpi

SpecKpi == InitKpi /\ [][NextKpi]_vars

InitTab ==
    /\ LoaderIdle
    /\ pdf \in {Some(l) : l \in Ledgers(TabRows)}
    /\ call = NoCall
    /\ result = None
    /\ app = NotStarted

NextTab ==
    \/ GetDepartmentBreakdown
    \/ GetCostBreakdownByDept
    \/ GetSgaBreakdown
    \/ GetDetailData

SpecTab == InitTab /\ [][NextTab]_vars

\* get_account_value over the Ledgers of the tabular queries.
NextValue == GetAccountValue

SpecValue == InitTab /\ [][NextValue]_vars

\* get_department_breakdown over the Ledgers of the KPI queries.
NextBreakdown == GetDepartmentBreakdown

SpecBreakdown == InitKpi /\ [][NextBreakdown]_vars

\* Rows for get_cost_structure: the three cost accounts (report type 1) and
\* the manufacturing cost (report type 0) of a department, not adding up; a
\* department with a cost account only, and its manufacturing cost in
\* another period; the cost and manufacturing codes under the other report
\* type; a cost account in a second period.
CostRows ==
    {LedgerRow(210, 1, 5419, 1, P_2025_07),
     LedgerRow(210, 1, 5439, 2, P_2025_07),
     LedgerRow(210, 1, 5469, 4, P_2025_07),
     LedgerRow(210, 0, 5299, 8, P_2025_07),
     LedgerRow(220, 1, 5419, 16, P_2025_07),
     LedgerRow(220, 0, 5299, 32, P_2025_08),
     LedgerRow(210, 0, 5419, 64, P_2025_07),
     LedgerRow(210, 1, 5299, 128, P_2025_07),
     LedgerRow(210, 1, 5419, 3, P_2025_08)}

InitCost ==
    /\ LoaderIdle
    /\ pdf \in {Some(l) : l \in Ledgers(CostRows)}
    /\ call = NoCall
    /\ result = None
    /\ app = NotStarted

NextCost == GetCostStructure

SpecCost == InitCost /\ [][NextCost]_vars

(***************************************************************************)
(* load_file on one file of the folder (specification SpecFile).           *)
(***************************************************************************)
FileNamePool ==
    {Name_2025_07, Name_plain, Name_two, Name_near, Name_prefixed}

\* loader.load_file(data_folder / n)
LoadFile ==
    /\ call = NoCall
    /\ \E n \in DOMAIN files :
          /\ call' = [op |-> "load_file", filename |-> n]
          /\ result' = LET df == load_file(n, files[n])
                       IN IF df = None THEN Raise("Exception")
                          ELSE Return(df[1])
    /\ UNCHANGED <<loaderVars, pdf, app>>

InitFile ==
    /\ dirExists = TRUE
    /\ files \in {[m \in {n} |-> c] : n \in FileNamePool, c \in QueryContents}
    /\ NewLoader
    /\ pdf = None
    /\ call = NoCall
    /\ result = None
    /\ app = NotStarted

NextFile == LoadFile

SpecFile == InitFile /\ [][NextFile]_vars

(***************************************************************************)
(* The Loader's queries (specification SpecQuery): a new DataLoader over a *)
(* folder of dated files and of a file whose period is read from its lines.*)
(***************************************************************************)
\* df = self.df, the first statement of every query
ReadDf ==
    /\ IF _df = None
       THEN /\ RunLoadAll(_loaded_files)
            /\ lazyLoads' = Counted(lazyLoads)
       ELSE UNCHANGED <<dirExists, files, _df, _loaded_files, nloads,
                        lazyLoads, scanned>>
    /\ lastOp' = "df"

GetPeriods ==
    /\ ReadDf
    /\ call' = [op |-> "get_periods"]
    /\ result' = get_periods(_df'[1])
    /\ UNCHANGED <<pdf, app>>

GetLatestPeriod ==
    /\ ReadDf
    /\ call' = [op |-> "get_latest_period"]
    /\ result' = get_latest_period(_df'[1])
    /\ UNCHANGED <<pdf, app>>

GetDepartments ==
    /\ ReadDf
    /\ call' = [op |-> "get_departments"]
    /\ result' \in {Return(r) : r \in get_departments(_df'[1])}
    /\ UNCHANGED <<pdf, app>>

Merge(f, g) ==
    [n \in DOMAIN f \cup DOMAIN g |-> IF n \in DOMAIN f THEN f[n] ELSE g[n]]

QueryFolders ==
    {Merge(d, p) :
        d \in UNION {[S -> CsvContents] :
                        S \in SUBSET {Name_2025_07, Name_2025_08}},
        p \in {<<>>} \cup {[m \in {Name_plain} |-> c] : c \in QueryContents}}

InitQuery ==
    /\ dirExists = TRUE
    /\ files \in QueryFolders
    /\ NewLoader
    /\ pdf = None
    /\ call = NoCall
    /\ result = None
    /\ app = NotStarted

NextQuery ==
    \/ GetPeriods
    \/ GetLatestPeriod
    \/ GetDepartments

SpecQuery == InitQuery /\ [][NextQuery]_vars

(***************************************************************************)
(* Properties of calculate_kpi (specification SpecKpi).                    *)
(***************************************************************************)
IsKpiCall == call.op = "calculate_kpi"

Kpi == result.value[1]

\* The rows of df that the arguments (dept_code, year_month) select.
Matching(df, dept_code, year_month) ==
    SelectSeq(df.rows,
              LAMBDA r : /\ (dept_code # None => r.dept_code = dept_code[1])
                         /\ (year_month # None => r.year_month = year_month))

\* df without every report_type-0 row of period scope p that repeats the
\* (department, account code) of an earlier such row.
WithoutRepeats(df, p) ==
    LET InScope(r) == r.report_type = 0 /\ (p # None => r.year_month = p)
        Repeats(i) ==
            /\ InScope(df.rows[i])
            /\ \E j \in 1..(i - 1) :
                  /\ InScope(df.rows[j])
                  /\ df.rows[j].dept_code = df.rows[i].dept_code
                  /\ df.rows[j].account_code = df.rows[i].account_code
        keep == sortedInt({i \in 1..Len(df.rows) : ~Repeats(i)})
    IN [cols |-> df.cols, rows |-> [k \in 1..Len(keep) |-> df.rows[keep[k]]]]

\* The plain sum of the balance column over the rows with an account code.
ColumnSum(df, account_code) ==
    SumSeq(Column(Where(df, Eq(df, "account_code", account_code)),
                  "balance"))

C2_AbsentSelectionGivesZeroKpi ==
    (IsKpiCall /\ Matching(pdf[1], call.dept_code, call.year_month) = <<>>)
        => /\ result.raised = "none"
           /\ DOMAIN Kpi = KpiAmounts \cup KpiMargins
           /\ \A f \in KpiAmounts : Kpi[f] = 0
           /\ \A m \in KpiMargins : Kpi[m] = Zero

\* C2 witness: the department and the period both occur in the Ledger, but
\* in no row together.
C2_Witness ==
    /\ IsKpiCall
    /\ call.dept_code = Some(210)
    /\ call.year_month = Some(P_2025_07)
    /\ Matching(pdf[1], call.dept_code, None) # <<>>
    /\ Matching(pdf[1], None, call.year_month) # <<>>
    /\ Matching(pdf[1], call.dept_code, call.year_month) = <<>>
    /\ result.raised = "none"

MarginOf ==
    [gross_margin |-> "gross_profit", op_margin |-> "operating_income",
     ord_margin |-> "ordinary_income", net_margin |-> "net_income"]

\* C3: calculate_kpi never raises; when the revenue it returns is 0 the four
\* margins are exactly 0, otherwise each margin is profit / revenue * 100.
C3_MarginsAreZeroOrRatio ==
    IsKpiCall =>
        /\ result.raised = "none"
        /\ \A m \in KpiMargins :
              /\ Kpi[m].den > 0
              /\ IF Kpi.revenue = 0
                 THEN Kpi[m].num = 0
                 ELSE Kpi[m].num * Kpi.revenue
                          = Kpi[MarginOf[m]] * 100 * Kpi[m].den

\* C3 witness: a company-wide call where two departments' non-zero revenues
\* cancel and the gross profit is not 0.
C3_Witness ==
    /\ IsKpiCall
    /\ call.dept_code = None
    /\ result.raised = "none"
    /\ Kpi.revenue = 0
    /\ Kpi.gross_profit # 0
    /\ LET scope == get_main_accounts(filter_by_period(pdf[1],
                                                       call.year_month))
       IN \E d \in {210, 220} :
             get_account_value(DeptRows(scope, d), ACCOUNT_CODES.revenue,
                               "balance") # 0

(***************************************************************************)
(* Properties of the tabular queries (specification SpecTab).              *)
(***************************************************************************)
TabularOps ==
    {"get_department_breakdown", "get_cost_breakdown_by_dept",
     "get_sga_breakdown", "get_detail_data"}

\* The column set of the query's non-empty result.
ColumnsOf(op) ==
    CASE op = "get_department_breakdown" -> BreakdownColumns
      [] op = "get_cost_breakdown_by_dept" -> CostByDeptColumns
      [] op = "get_sga_breakdown" -> SgaColumns
      [] op = "get_detail_data" -> display_cols

CallDept == IF "dept_code" \in DOMAIN call THEN call.dept_code ELSE None

\* The Ledger is empty, or the call names a department or a period that
\* the Ledger does not have.
AbsentSelection ==
    \/ pdf[1].rows = <<>>
    \/ CallDept # None /\ Matching(pdf[1], CallDept, None) = <<>>
    \/ call.year_month # None /\ Matching(pdf[1], None, call.year_month) = <<>>

\* C4: for an empty Ledger, a nonexistent department or a nonexistent
\* period, every tabular query returns zero rows under the column set of
\* its non-empty result.
C4_EmptyResultKeepsColumns ==
    (call.op \in TabularOps /\ AbsentSelection) =>
        /\ result.raised = "none"
        /\ result.value[1].rows = <<>>
        /\ result.value[1].cols = ColumnsOf(call.op)

(***************************************************************************)
(* Properties of the Loader (specification Spec).                          *)
(***************************************************************************)
\* The CSV files a folder snapshot holds, and those of them that parse.
CsvIn(S) == IF S.exists THEN {n \in DOMAIN S.files : IsCsv(n)} ELSE {}
ParsedIn(S) == {n \in CsvIn(S) : S.files[n].ok}

RowsFrom(df, n) == SelectSeq(df.rows, LAMBDA r : r.source_file = n)

RECURSIVE TotalLines(_, _)
TotalLines(S, names) ==
    IF names = {} THEN 0
    ELSE LET n == CHOOSE x \in names : TRUE
         IN Len(S.files[n].lines) + TotalLines(S, names \ {n})

\* s lists the set T in ascending order, each element once.
ListsAscending(s, T) ==
    /\ Range(s) = T
    /\ \A i, j \in 1..Len(s) : i < j => TextLess(s[i], s[j])

\* C5: when load_file fails for some file, that file gives no rows and is
\* not in loaded_files, and every other CSV file is still loaded: the Ledger
\* holds exactly the rows of the files that parsed, and load_all returns.
C5_FailingFileIsSkipped ==
    (scanned # None /\ CsvIn(scanned[1]) # {}) =>
        LET S == scanned[1]
        IN /\ _df # None
           /\ Range(_loaded_files) = ParsedIn(S)
           /\ \A i \in 1..Len(_df[1].rows) :
                 _df[1].rows[i].source_file \in ParsedIn(S)
           /\ \A n \in ParsedIn(S) :
                 RowsFrom(_df[1], n) = load_file(n, S.files[n])[1].rows

\* C5 witness: the first file in sorted order failed and a later file with
\* lines was loaded.
C5_Witness ==
    /\ scanned # None
    /\ lastOp = "load_all"
    /\ \E bad, good \in CsvIn(scanned[1]) :
          /\ ~scanned[1].files[bad].ok
          /\ scanned[1].files[good].ok
          /\ TextLess(bad, good)
          /\ RowsFrom(_df[1], good) # <<>>
          /\ _loaded_files = <<good>>

\* C6: loaded_files is the list, in sorted file-name order, of exactly the
\* files that parsed in the most recent load_all execution; it is empty when
\* that load found no folder or no CSV file.
C6_LoadedFilesAreLastParse ==
    /\ scanned = None => _loaded_files = <<>>
    /\ scanned # None => ListsAscending(_loaded_files, ParsedIn(scanned[1]))

\* C7: a read of df loads only when nothing was loaded yet, so reads trigger
\* at most one load_all in all; every load fills the cache, also with an
\* empty Ledger; and the cache is the Ledger of the most recent load_all
\* execution whatever the folder holds since.
C7_DfLoadsOnceThenCaches ==
    /\ lazyLoads <= 1
    /\ lastOp = "df" => nloads >= 1
    /\ nloads >= 1 => _df # None /\ scanned # None
    /\ scanned # None =>
          _df = Some(load_all(scanned[1].exists, scanned[1].files, <<>>).df)

\* C7 witness: df was read, its load gave an empty Ledger, the folder has
\* since got a file with lines, and no second load took place.
C7_Witness ==
    /\ lastOp = "df"
    /\ lazyLoads = 1
    /\ nloads = 1
    /\ _df[1].rows = <<>>
    /\ \E n \in CsvIn(Folder) : files[n].ok /\ files[n].lines # <<>>

\* C8: on an unchanged folder, reload() after reload(), or after the initial
\* load, leaves loaded_files and the Ledger as they were.
C8_ReloadIsIdempotent ==
    [][(/\ Reload
        /\ scanned # None
        /\ scanned[1].files = files
        /\ (lastOp = "reload" \/ nloads = 1))
          => (_df' = _df /\ _loaded_files' = _loaded_files)]_vars

\* C8 witness: the state after a reload that followed another load, with two
\* files loaded.
C8_Witness ==
    /\ lastOp = "reload"
    /\ nloads >= 2
    /\ scanned = Some(Folder)
    /\ Len(_loaded_files) = 2
    /\ _df[1].rows # <<>>

\* An execution of load_all.
LoadStep == LoadAll \/ Reload \/ (AccessDf /\ _df = None)

\* C9: load_all ends with the folder in place; when the folder did not
\* exist, held no CSV file, or none of them parsed, the cached Ledger is
\* set to a Ledger of zero rows with the 23 CSV columns plus source_file
\* and year_month.
C9_DegenerateFolderGivesEmptyLedger ==
    [][LoadStep =>
          /\ dirExists'
          /\ _df' # None
          /\ ParsedIn(Folder) = {} =>
                /\ _df'[1].rows = <<>>
                /\ COLUMN_NAMES \cup {"source_file", "year_month"}
                      = _df'[1].cols
                /\ Cardinality(_df'[1].cols) = 25]_vars

\* C9 witness: a load found no folder, created it and cached the empty
\* Ledger.
C9_Witness ==
    /\ scanned # None
    /\ ~scanned[1].exists
    /\ lastOp = "load_all"
    /\ dirExists
    /\ _df # None
    /\ _df[1].rows = <<>>
    /\ _df[1].cols = LedgerColumns

\* C10: the Ledger is the concatenation of the parsed files' rows in
\* ascending file-name order, each file's rows in file order; nothing is
\* dropped or merged, so the row count is the sum of the files' row counts.
C10_LedgerIsConcatenationInNameOrder ==
    (scanned # None /\ ParsedIn(scanned[1]) # {}) =>
        LET S == scanned[1]
            rows == _df[1].rows
        IN /\ Len(rows) = TotalLines(S, ParsedIn(S))
           /\ \A i, j \in 1..Len(rows) :
                 i < j => \/ rows[i].source_file = rows[j].source_file
                          \/ TextLess(rows[i].source_file,
                                      rows[j].source_file)
           /\ \A n \in ParsedIn(S) :
                 LET got == RowsFrom(_df[1], n)
                     lines == S.files[n].lines
                 IN /\ Len(got) = Len(lines)
                    /\ \A k \in 1..Len(lines) :
                          /\ got[k].dept_code = lines[k].dept_code
                          /\ got[k].account_code = lines[k].account_code
                          /\ got[k].report_type = lines[k].report_type
                          /\ got[k].balance = to_numeric_fillna(lines[k].balance)

\* C10 witness: two files were loaded and the same (department, account
\* code, report type) row of each is in the Ledger.
C10_Witness ==
    /\ scanned # None
    /\ Len(_loaded_files) = 2
    /\ Len(_df[1].rows) = 4
    /\ \E i, j \in 1..4 :
          /\ i < j
          /\ _df[1].rows[i].source_file # _df[1].rows[j].source_file
          /\ _df[1].rows[i].dept_code = _df[1].rows[j].dept_code
          /\ _df[1].rows[i].account_code = _df[1].rows[j].account_code
          /\ _df[1].rows[i].report_type = _df[1].rows[j].report_type
          /\ _df[1].rows[i].balance = _df[1].rows[j].balance

(***************************************************************************)
(* Properties of load_file (specification SpecFile).                       *)
(***************************************************************************)
\* The non-blank cells of the start-period column, in line order.
StartCells(lines) ==
    LET valid == SelectSeq(lines, LAMBDA l : l.start_period # None)
    IN [i \in 1..Len(valid) |-> valid[i].start_period[1]]

\* C11: load_file tags every row with the file's name and with one period:
\* "YYYY/MM" of the first match of the pattern in the file name when there
\* is one, whatever the start-period column holds; otherwise the first
\* non-blank value of the start-period column; otherwise null.
C11_PeriodFromNameElseFromFile ==
    (call.op = "load_file" /\ result.raised = "none") =>
        LET n == call.filename
            lines == files[n].lines
            rows == result.value[1].rows
            cells == StartCells(lines)
            PeriodOk(ym) ==
                CASE n = Name_2025_07 -> ym = Some(P_2025_07)
                  [] n = Name_prefixed -> ym = Some(P_2025_08)
                  [] n = Name_two ->
                        ym = Some(Str(<<"2","0","2","4","/","1","2">>))
                  [] OTHER ->
                        IF cells = <<>> THEN ym = None
                        ELSE ym # None /\ ym[1].text = cells[1]
        IN /\ Len(rows) = Len(lines)
           /\ \A i \in 1..Len(rows) :
                 /\ rows[i].source_file = n
                 /\ PeriodOk(rows[i].year_month)

\* C11 witness: a file named for 2025/07 whose first line has another start
\* period was loaded, with two rows or more.
C11_Witness ==
    /\ call.op = "load_file"
    /\ call.filename = Name_2025_07
    /\ result.raised = "none"
    /\ Len(result.value[1].rows) >= 2
    /\ files[Name_2025_07].lines[1].start_period = Some(T_202507)
    /\ result.value[1].rows[2].year_month = Some(P_2025_07)

(***************************************************************************)
(* Properties of the Loader's queries (specification SpecQuery).           *)
(***************************************************************************)
\* v is a str of the form YYYY/MM.
IsYearMonth(v) ==
    /\ v.type = "str"
    /\ Len(v.text) = 7
    /\ \A k \in {1, 2, 3, 4, 6, 7} : v.text[k] \in Digits
    /\ v.text[5] = "/"

\* C12: in every Ledger the Loader produces, the period of every row is null
\* or a string of the form "YYYY/MM".
C12_PeriodIsNullOrYearMonth ==
    _df # None =>
        \A i \in 1..Len(_df[1].rows) :
            \/ _df[1].rows[i].year_month = None
            \/ IsYearMonth(_df[1].rows[i].year_month[1])

\* The non-null periods of the cached Ledger.
PeriodsOfLedger ==
    {_df[1].rows[i].year_month[1] :
        i \in {k \in 1..Len(_df[1].rows) : _df[1].rows[k].year_month # None}}

\* C13: get_periods() returns, without raising, exactly the distinct
\* non-null periods of the Ledger, each once, in ascending lexicographic
\* order.
C13_PeriodsSortedAndDistinct ==
    call.op = "get_periods" =>
        /\ result.raised = "none"
        /\ LET r == result.value[1]
           IN /\ Range(r) = PeriodsOfLedger
              /\ \A i, j \in 1..Len(r) :
                    i < j => TextLess(r[i].text, r[j].text)

\* C14: get_latest_period() returns the greatest non-null period of the
\* Ledger, and null exactly when the Ledger has no non-null period.
C14_LatestIsGreatestPeriod ==
    call.op = "get_latest_period" =>
        /\ result.raised = "none"
        /\ LET v == result.value[1]
           IN IF PeriodsOfLedger = {} THEN v = None
              ELSE /\ v # None
                   /\ v[1] \in PeriodsOfLedger
                   /\ \A q \in PeriodsOfLedger \ {v[1]} :
                         TextLess(q.text, v[1].text)

\* The (dept_code, dept_name) pairs of the cached Ledger.
PairsOfLedger ==
    {<<_df[1].rows[i].dept_code, _df[1].rows[i].dept_name>> :
        i \in 1..Len(_df[1].rows)}

\* C15: get_departments() returns each distinct (dept_code, dept_name) pair
\* of the Ledger exactly once, in non-decreasing dept_code order; a code
\* with two names gives two entries and an empty Ledger the empty list.
C15_DepartmentsDistinctByCode ==
    call.op = "get_departments" =>
        /\ result.raised = "none"
        /\ LET r == result.value[1]
           IN /\ Range(r) = PairsOfLedger
              /\ Len(r) = Cardinality(PairsOfLedger)
              /\ \A i, j \in 1..Len(r) : i < j => r[i][1] <= r[j][1]
              /\ _df[1].rows = <<>> => r = <<>>

\* C15 witness: the Ledger's first row has the greater code, and the list
\* has one code under two names after it has the smaller code.
C15_Witness ==
    /\ call.op = "get_departments"
    /\ result.raised = "none"
    /\ _df[1].rows # <<>>
    /\ _df[1].rows[1].dept_code = 220
    /\ LET r == result.value[1]
       IN /\ Len(r) = 3
          /\ r[1][1] = 210
          /\ r[2][1] = 210
          /\ r[1][2] # r[2][2]
          /\ r[3][1] = 220

(***************************************************************************)
(* Properties of get_account_value (specification SpecValue).              *)
(***************************************************************************)
\* The positions of the rows with an account code.
PositionsOf(rows, account_code) ==
    {i \in 1..Len(rows) : rows[i].account_code = account_code}

\* The value of a column in the first row with the account code, else 0.
FirstOf(rows, account_code, value_column) ==
    IF PositionsOf(rows, account_code) = {} THEN 0
    ELSE rows[Min(PositionsOf(rows, account_code))][value_column]

\* C16: get_account_value(rows, account_code, value_column) returns the
\* value_column of the first row, in row order, with that account code,
\* whatever later matching rows hold, and 0 when no row matches.
C16_FirstMatchOrZero ==
    call.op = "get_account_value" =>
        LET rows == pdf[1].rows
            at == PositionsOf(rows, call.account_code)
        IN /\ result.raised = "none"
           /\ IF at = {} THEN result.value[1] = 0
              ELSE \E i \in at :
                      /\ \A j \in at : i <= j
                      /\ result.value[1] = rows[i][call.value_column]

\* C16 witness: the first match is the second row and a later row with the
\* same code has another balance.
C16_Witness ==
    /\ call.op = "get_account_value"
    /\ call.value_column = "balance"
    /\ Len(pdf[1].rows) = 3
    /\ pdf[1].rows[1].account_code # call.account_code
    /\ pdf[1].rows[2].account_code = call.account_code
    /\ pdf[1].rows[3].account_code = call.account_code
    /\ pdf[1].rows[2].balance # pdf[1].rows[3].balance
    /\ result.value[1] = pdf[1].rows[2].balance

(***************************************************************************)
(* calculate_kpi over all periods (specification SpecKpi).                 *)
(***************************************************************************)
\* The rows of report type t that (dept_code, year_month) select.
Scope(df, t, dept_code, year_month) ==
    SelectSeq(Matching(df, dept_code, year_month),
              LAMBDA r : r.report_type = t)

\* No two of the rows have the same account code in the same period.
OneRowPerPeriod(rows) ==
    \A i, j \in 1..Len(rows) :
        (i < j /\ rows[i].account_code = rows[j].account_code)
            => rows[i].year_month # rows[j].year_month

\* The sum of the balances of the rows with an account code.
BalanceSum(rows, account_code) ==
    SumSeq([i \in 1..Len(SelectSeq(rows,
                LAMBDA r : r.account_code = account_code)) |->
               SelectSeq(rows,
                   LAMBDA r : r.account_code = account_code)[i].balance])

\* C17: with year_month omitted, calculate_kpi for a department gives for
\* each amount the sum, over all periods, of the department's report_type-0
\* balances of the account code (one row per account code and period).
C17_NoPeriodGivesAllPeriodTotal ==
    (/\ IsKpiCall
     /\ call.year_month = None
     /\ call.dept_code # None
     /\ OneRowPerPeriod(Scope(pdf[1], 0, call.dept_code, None)))
        => /\ result.raised = "none"
           /\ \A f \in KpiAmounts :
                 Kpi[f] = BalanceSum(Scope(pdf[1], 0, call.dept_code, None),
                                     ACCOUNT_CODES[f])

(***************************************************************************)
(* Properties of get_department_breakdown (specification SpecBreakdown).   *)
(***************************************************************************)
\* The department codes of a sequence of rows.
DeptsOf(rows) == {rows[i].dept_code : i \in 1..Len(rows)}

\* The rows of one department.
OfDepartment(rows, d) == SelectSeq(rows, LAMBDA r : r.dept_code = d)

\* m is profit / revenue * 100, or 0 when revenue is 0.
IsMarginOf(m, profit, revenue) ==
    /\ m.den > 0
    /\ IF revenue = 0 THEN m.num = 0
       ELSE m.num * revenue = profit * 100 * m.den

\* C18: get_department_breakdown(period) gives one record for each distinct
\* department code of the period-filtered report_type-0 rows and no other,
\* in ascending code order; its four amounts are the first-match lookups of
\* 4199, 5400, 7000 and 8000 within the department's rows and its two
\* margins are profit / revenue * 100, or 0 when revenue is 0.
C18_BreakdownOneRecordPerDepartment ==
    call.op = "get_department_breakdown" =>
        /\ result.raised = "none"
        /\ LET scope == Scope(pdf[1], 0, None, call.year_month)
               r == result.value[1].rows
           IN /\ {r[i].dept_code : i \in 1..Len(r)} = DeptsOf(scope)
              /\ \A i, j \in 1..Len(r) :
                    i < j => r[i].dept_code < r[j].dept_code
              /\ \A i \in 1..Len(r) :
                    LET mine == OfDepartment(scope, r[i].dept_code)
                    IN /\ r[i].revenue = FirstOf(mine, 4199, "balance")
                       /\ r[i].gross_profit = FirstOf(mine, 5400, "balance")
                       /\ r[i].operating_income
                             = FirstOf(mine, 7000, "balance")
                       /\ r[i].ordinary_income
                             = FirstOf(mine, 8000, "balance")
                       /\ IsMarginOf(r[i].gross_margin, r[i].gross_profit,
                                     r[i].revenue)
                       /\ IsMarginOf(r[i].op_margin, r[i].operating_income,
                                     r[i].revenue)

\* C18 witness: the Ledger starts with the greater department code, the
\* breakdown has two records and the first has a margin that is not 0.
C18_Witness ==
    /\ call.op = "get_department_breakdown"
    /\ result.raised = "none"
    /\ pdf[1].rows # <<>>
    /\ pdf[1].rows[1].dept_code = 220
    /\ Len(result.value[1].rows) = 2
    /\ result.value[1].rows[1].dept_code = 210
    /\ result.value[1].rows[1].gross_margin.num # 0
    /\ result.value[1].rows[2].revenue # 0

(***************************************************************************)
(* Properties of get_cost_structure (specification SpecCost).              *)
(***************************************************************************)
IsCostCall == call.op = "get_cost_structure"

Cost == result.value[1]

\* The lookup of an account code in rows: the first match when a department
\* is given, else the sum over the rows' departments of their first match.
Lookup(rows, dept_code, account_code) ==
    IF dept_code # None THEN FirstOf(rows, account_code, "balance")
    ELSE LET depts == sortedInt(DeptsOf(rows))
         IN SumSeq([k \in 1..Len(depts) |->
                       FirstOf(OfDepartment(rows, depts[k]), account_code,
                               "balance")])

\* A cost code in a report_type-0 row, or the manufacturing code in a
\* report_type-1 row.
OffType(r) ==
    \/ r.report_type = 0 /\ r.account_code \in {5419, 5439, 5469}
    \/ r.report_type = 1 /\ r.account_code = 5299

WithoutOffType(df) ==
    [cols |-> df.cols, rows |-> SelectSeq(df.rows, LAMBDA r : ~OffType(r))]

\* C19: get_cost_structure takes material_cost, labor_cost and expense from
\* report_type-1 rows only (5419, 5439, 5469) and mfg_cost from
\* report_type-0 rows only (5299); rows with these codes under the other
\* report type do not change the result, and mfg_cost is the looked-up
\* value, not the sum of the other three.
C19_CostSourcesByReportType ==
    IsCostCall =>
        LET d == call.dept_code
            p == call.year_month
            cost == Scope(pdf[1], 1, d, p)
            main == Scope(pdf[1], 0, d, p)
        IN /\ result.raised = "none"
           /\ DOMAIN Cost = CostFields
           /\ Cost.material_cost = Lookup(cost, d, 5419)
           /\ Cost.labor_cost = Lookup(cost, d, 5439)
           /\ Cost.expense = Lookup(cost, d, 5469)
           /\ Cost.mfg_cost = Lookup(main, d, 5299)
           /\ result = get_cost_structure(WithoutOffType(pdf[1]), d, p)

\* C19 witness: the Ledger has a row of a cost code or of the manufacturing
\* code under the other report type in the call's selection, and the
\* returned mfg_cost is not 0 and not the sum of the other three.
C19_Witness ==
    /\ IsCostCall
    /\ result.raised = "none"
    /\ \E i \in 1..Len(pdf[1].rows) :
          /\ OffType(pdf[1].rows[i])
          /\ Matching([rows |-> <<pdf[1].rows[i]>>], call.dept_code,
                      call.year_month) # <<>>
    /\ Cost.material_cost # 0
    /\ Cost.mfg_cost # 0
    /\ Cost.mfg_cost # Cost.material_cost + Cost.labor_cost + Cost.expense

\* C20: each field of the company-wide get_cost_structure(None, p) is the
\* sum, over all departments d of the Ledger, of the same field of
\* get_cost_structure(d, p).
C20_CompanyCostSumsDepartmentCosts ==
    (IsCostCall /\ call.dept_code = None) =>
        LET p == call.year_month
            depts == sortedInt(DeptsOf(pdf[1].rows))
            OfDept(d) == get_cost_structure(pdf[1], Some(d), p)
        IN /\ result.raised = "none"
           /\ \A k \in 1..Len(depts) : OfDept(depts[k]).raised = "none"
           /\ \A f \in CostFields :
                 Cost[f] = SumSeq([k \in 1..Len(depts) |->
                                      OfDept(depts[k]).value[1][f]])

\* C20 witness: a company-wide call over a Ledger where one department has
\* rows of report type 1 only and another of report type 0 only, and both
\* contribute.
C20_Witness ==
    /\ IsCostCall
    /\ call.dept_code = None
    /\ result.raised = "none"
    /\ \E a, b \in DeptsOf(pdf[1].rows) :
          /\ a # b
          /\ \A i \in 1..Len(pdf[1].rows) :
                /\ pdf[1].rows[i].dept_code = a
                      => pdf[1].rows[i].report_type = 1
                /\ pdf[1].rows[i].dept_code = b
                      => pdf[1].rows[i].report_type = 0
    /\ Cost.material_cost # 0
    /\ Cost.mfg_cost # 0

(***************************************************************************)
(* Properties of get_cost_breakdown_by_dept (specification SpecCostByDept):*)
(* the query over the Ledgers of the cost-structure rows.                  *)
(***************************************************************************)
NextCostByDept == GetCostBreakdownByDept

SpecCostByDept == InitCost /\ [][NextCostByDept]_vars

IsCostByDeptCall == call.op = "get_cost_breakdown_by_dept"

\* C21: get_cost_breakdown_by_dept(period) gives one record for each
\* department of the period-filtered rows and no other, in ascending code
\* order; material_cost, labor_cost and expense are the first-match lookups
\* of 5419, 5439 and 5469 in the department's report_type-1 rows and
\* mfg_cost that of 5299 in its report_type-0 rows; the mfg_cost column
\* adds up to the mfg_cost of get_cost_structure(None, period).
C21_CostByDeptCoversEveryDepartment ==
    IsCostByDeptCall =>
        /\ result.raised = "none"
        /\ LET p == call.year_month
               cost == Scope(pdf[1], 1, None, p)
               main == Scope(pdf[1], 0, None, p)
               r == result.value[1].rows
               company == get_cost_structure(pdf[1], None, p)
           IN /\ {r[i].dept_code : i \in 1..Len(r)}
                    = DeptsOf(Matching(pdf[1], None, p))
              /\ \A i, j \in 1..Len(r) :
                    i < j => r[i].dept_code < r[j].dept_code
              /\ \A i \in 1..Len(r) :
                    LET d == r[i].dept_code
                    IN /\ r[i].material_cost
                             = FirstOf(OfDepartment(cost, d), 5419, "balance")
                       /\ r[i].labor_cost
                             = FirstOf(OfDepartment(cost, d), 5439, "balance")
                       /\ r[i].expense
                             = FirstOf(OfDepartment(cost, d), 5469, "balance")
                       /\ r[i].mfg_cost
                             = FirstOf(OfDepartment(main, d), 5299, "balance")
              /\ company.raised = "none"
              /\ SumSeq([i \in 1..Len(r) |-> r[i].mfg_cost])
                    = company.value[1].mfg_cost

(***************************************************************************)
(* Properties of get_sga_breakdown (specification SpecSga).                *)
(***************************************************************************)
\* Rows for get_sga_breakdown: an SGA item of two departments and of a
\* second period; an item whose balances cancel over the periods; the item
\* at the lower end of the range, whose balance equals another item's; the
\* summary code 6299, an SGA code under report type 1 and a code outside
\* the range.
SgaRows ==
    {LedgerRow(210, 0, 6100, 1, P_2025_07),
     LedgerRow(220, 0, 6100, 2, P_2025_07),
     LedgerRow(210, 0, 6100, 4, P_2025_08),
     LedgerRow(210, 0, 6200, 8, P_2025_07),
     LedgerRow(210, 0, 6200, -8, P_2025_08),
     LedgerRow(220, 0, 6000, 1, P_2025_07),
     LedgerRow(210, 0, 6299, 16, P_2025_07),
     LedgerRow(210, 1, 6100, 32, P_2025_07),
     LedgerRow(210, 0, 4199, 64, P_2025_07)}

InitSga ==
    /\ LoaderIdle
    /\ pdf \in {Some(l) : l \in Ledgers(SgaRows)}
    /\ call = NoCall
    /\ result = None
    /\ app = NotStarted

NextSga == GetSgaBreakdown

SpecSga == InitSga /\ [][NextSga]_vars

IsSgaCall == call.op = "get_sga_breakdown"

Sga == result.value[1].rows

\* The report_type-0 rows in the call's scope with a code in [6000, 6299).
SgaScope ==
    SelectSeq(Scope(pdf[1], 0, call.dept_code, call.year_month),
              LAMBDA r : r.account_code >= 6000 /\ r.account_code < 6299)

SgaCodes(rows) == {rows[i].account_code : i \in 1..Len(rows)}

\* C22: get_sga_breakdown(dept_code, period) reports only account codes of
\* report_type-0 rows in scope with 6000 <= code < 6299, and the amount of
\* each is the plain sum of balance over all such rows in scope, every
\* department, period and repeated row included; every such code with a
\* non-zero sum is reported.
C22_SgaIsFlatSumOverRange ==
    IsSgaCall =>
        /\ result.raised = "none"
        /\ \A i \in 1..Len(Sga) :
              /\ Sga[i].account_code \in SgaCodes(SgaScope)
              /\ Sga[i].account_code >= 6000
              /\ Sga[i].account_code < 6299
              /\ Sga[i].amount = BalanceSum(SgaScope, Sga[i].account_code)
        /\ \A a \in SgaCodes(SgaScope) :
              BalanceSum(SgaScope, a) # 0
                  => \E i \in 1..Len(Sga) : Sga[i].account_code = a

\* C22 witness: a company-wide call over all periods whose Ledger has the
\* summary code 6299 and two rows of one SGA item in one department; the
\* reported amount is the sum of both, not the first.
C22_Witness ==
    /\ IsSgaCall
    /\ call.dept_code = None
    /\ call.year_month = None
    /\ result.raised = "none"
    /\ \E i \in 1..Len(pdf[1].rows) : pdf[1].rows[i].account_code = 6299
    /\ \E i \in 1..Len(Sga) :
          /\ Sga[i].account_code = 6100
          /\ Sga[i].amount # Lookup(SgaScope, None, 6100)

\* C23: every non-empty result of get_sga_breakdown is sorted by amount
\* strictly descending (each amount greater than the next), has one entry
\* per account code and has no entry whose amount is 0; a negative total is
\* kept.
C23_SgaStrictlyDescending ==
    (IsSgaCall /\ result.raised = "none") =>
        /\ \A i \in 1..(Len(Sga) - 1) : Sga[i].amount > Sga[i + 1].amount
        /\ \A i, j \in 1..Len(Sga) :
              i # j => Sga[i].account_code # Sga[j].account_code
        /\ \A i \in 1..Len(Sga) : Sga[i].amount # 0
        /\ \A a \in SgaCodes(SgaScope) :
              BalanceSum(SgaScope, a) < 0
                  => \E i \in 1..Len(Sga) : Sga[i].account_code = a

\* C23 as amended: the amounts never increase from one entry to the next
\* (entries of equal amount are neighbours); one entry per account code; no
\* entry of amount 0, so a code whose balances cancel is absent; a code
\* with a negative total is present.
C23_SgaDescendingNoZero ==
    (IsSgaCall /\ result.raised = "none") =>
        /\ \A i \in 1..(Len(Sga) - 1) : Sga[i].amount >= Sga[i + 1].amount
        /\ \A i, j \in 1..Len(Sga) :
              i # j => Sga[i].account_code # Sga[j].account_code
        /\ \A i \in 1..Len(Sga) : Sga[i].amount # 0
        /\ \A a \in SgaCodes(SgaScope) :
              /\ BalanceSum(SgaScope, a) = 0
                    => \A i \in 1..Len(Sga) : Sga[i].account_code # a
              /\ BalanceSum(SgaScope, a) < 0
                    => \E i \in 1..Len(Sga) : Sga[i].account_code = a

\* C23 witness: a result with two entries of equal amount followed by an
\* entry of a negative amount.
C23_Witness ==
    /\ IsSgaCall
    /\ result.raised = "none"
    /\ Len(Sga) = 3
    /\ Sga[1].amount = Sga[2].amount
    /\ Sga[3].amount < 0

(***************************************************************************)
(* Properties of get_detail_data (specification SpecDetail): the query     *)
(* over the Ledgers of the tabular rows.                                   *)
(***************************************************************************)
NextDetail == GetDetailData

SpecDetail == InitTab /\ [][NextDetail]_vars

IsDetailCall == call.op = "get_detail_data"

Detail == result.value[1]

\* The Ledger rows the call selects, in Ledger order, with the six display
\* columns.
DetailScope ==
    LET rows == Scope(pdf[1], call.output_type, call.dept_code,
                      call.year_month)
    IN [i \in 1..Len(rows) |->
           [dept_name |-> rows[i].dept_name,
            account_name |-> rows[i].account_name,
            prior_balance |-> rows[i].prior_balance,
            debit |-> rows[i].debit,
            credit |-> rows[i].credit,
            balance |-> rows[i].balance]]

\* How often x occurs in the sequence s.
Occurrences(s, x) == Cardinality({i \in 1..Len(s) : s[i] = x})

\* C24: get_detail_data(dept_code, period, report_type) returns one output
\* row for each Ledger row that matches the report type and every non-null
\* filter, none added, dropped or merged, with the columns department name,
\* account name, prior balance, debit, credit and balance, in ascending
\* order of (department name, account name).
C24_DetailIsSortedPassThrough ==
    IsDetailCall =>
        /\ result.raised = "none"
        /\ Detail.cols = {"dept_name", "account_name", "prior_balance",
                          "debit", "credit", "balance"}
        /\ Len(Detail.rows) = Len(DetailScope)
        /\ \A x \in Range(DetailScope) \cup Range(Detail.rows) :
              Occurrences(Detail.rows, x) = Occurrences(DetailScope, x)
        /\ \A i \in 1..(Len(Detail.rows) - 1) :
              LET a == Detail.rows[i]
                  b == Detail.rows[i + 1]
              IN \/ NameRank(a.dept_name) < NameRank(b.dept_name)
                 \/ /\ a.dept_name = b.dept_name
                    /\ NameRank(a.account_name) <= NameRank(b.account_name)

\* C24 witness: a call without department and period over a Ledger of three
\* rows of which one has the other report type; the two output rows are in
\* another order than in the Ledger.
C24_Witness ==
    /\ IsDetailCall
    /\ call.dept_code = None
    /\ call.year_month = None
    /\ result.raised = "none"
    /\ Len(pdf[1].rows) = 3
    /\ Len(Detail.rows) = 2
    /\ Detail.rows # DetailScope

(***************************************************************************)
(* A session with one DataProcessor (specification SpecSession): queries   *)
(* follow one another on the Ledger the processor holds.                   *)
(***************************************************************************)
\* Rows for a session: two departments, two periods, both report types, an
\* SGA item.
SessionRows ==
    {LedgerRow(210, 0, 4199, 1, P_2025_07),
     LedgerRow(220, 0, 6100, 4, P_2025_08),
     LedgerRow(210, 1, 5419, 8, P_2025_07)}

\* The calls of a session, by method.
CallsOf(op) ==
    CASE op \in {"filter_by_department"} ->
            {[op |-> op, dept_code |-> d] : d \in DeptArgs}
      [] op \in {"filter_by_period", "get_department_breakdown",
                 "get_cost_breakdown_by_dept"} ->
            {[op |-> op, year_month |-> p] : p \in PeriodArgs}
      [] op \in {"get_main_accounts", "get_cost_breakdown"} ->
            {[op |-> op]}
      [] op \in {"get_account_value"} ->
            {[op |-> op, account_code |-> a, value_column |-> v] :
                a \in AccountArgs, v \in ValueColumnArgs}
      [] op \in {"calculate_kpi", "get_cost_structure",
                 "get_sga_breakdown"} ->
            {[op |-> op, dept_code |-> d, year_month |-> p] :
                d \in DeptArgs, p \in PeriodArgs}
      [] op \in {"get_detail_data"} ->
            {[op |-> op, dept_code |-> d, year_month |-> p,
              output_type |-> t] :
                d \in DeptArgs, p \in PeriodArgs, t \in OutputTypeArgs}

\* What the method of call c returns on a processor whose self.df is df.
Answer(df, c) ==
    CASE c.op = "filter_by_department" ->
            Return(filter_by_department(df, c.dept_code))
      [] c.op = "filter_by_period" ->
            Return(filter_by_period(df, c.year_month))
      [] c.op = "get_main_accounts" -> Return(get_main_accounts(df))
      [] c.op = "get_cost_breakdown" -> Return(get_cost_breakdown(df))
      [] c.op = "get_account_value" ->
            Return(get_account_value(df, c.account_code, c.value_column))
      [] c.op = "calculate_kpi" ->
            calculate_kpi(df, c.dept_code, c.year_month)
      [] c.op = "get_department_breakdown" ->
            get_department_breakdown(df, c.year_month)
      [] c.op = "get_cost_structure" ->
            get_cost_structure(df, c.dept_code, c.year_month)
      [] c.op = "get_cost_breakdown_by_dept" ->
            get_cost_breakdown_by_dept(df, c.year_month)
      [] c.op = "get_sga_breakdown" ->
            get_sga_breakdown(df, c.dept_code, c.year_month)
      [] c.op = "get_detail_data" ->
            get_detail_data(df, c.dept_code, c.year_month, c.output_type)

\* Mutant of df_after_query: the method filters self.df in place.
df_after_filtering(df, c) ==
    Filtered(df,
             IF "dept_code" \in DOMAIN c THEN c.dept_code ELSE None,
             IF "year_month" \in DOMAIN c THEN c.year_month ELSE None)

\* self.df after the method of call c: every method reads self.df, or works
\* on filtered = self.df.copy(), and assigns nothing to self.df.
df_after_query(df, c) == df

\* processor.<method>(<arguments>)
Query(c) ==
    /\ call' = c
    /\ result' = Answer(pdf[1], c)
    /\ pdf' = Some(df_after_query(pdf[1], c))
    /\ UNCHANGED <<loaderVars, app>>

QueryFilterByDepartment == \E c \in CallsOf("filter_by_department") : Query(c)
QueryFilterByPeriod == \E c \in CallsOf("filter_by_period") : Query(c)
QueryGetMainAccounts == \E c \in CallsOf("get_main_accounts") : Query(c)
QueryGetCostBreakdown == \E c \in CallsOf("get_cost_breakdown") : Query(c)
QueryGetAccountValue == \E c \in CallsOf("get_account_value") : Query(c)
QueryCalculateKpi == \E c \in CallsOf("calculate_kpi") : Query(c)
QueryGetDepartmentBreakdown ==
    \E c \in CallsOf("get_department_breakdown") : Query(c)
QueryGetCostStructure == \E c \in CallsOf("get_cost_structure") : Query(c)
QueryGetCostBreakdownByDept ==
    \E c \in CallsOf("get_cost_breakdown_by_dept") : Query(c)
QueryGetSgaBreakdown == \E c \in CallsOf("get_sga_breakdown") : Query(c)
QueryGetDetailData == \E c \in CallsOf("get_detail_data") : Query(c)

InitSession ==
    /\ LoaderIdle
    /\ pdf \in {Some(l) : l \in Ledgers(SessionRows)}
    /\ call = NoCall
    /\ result = None
    /\ app = NotStarted

NextSession ==
    \/ QueryFilterByDepartment
    \/ QueryFilterByPeriod
    \/ QueryGetMainAccounts
    \/ QueryGetCostBreakdown
    \/ QueryGetAccountValue
    \/ QueryCalculateKpi
    \/ QueryGetDepartmentBreakdown
    \/ QueryGetCostStructure
    \/ QueryGetCostBreakdownByDept
    \/ QueryGetSgaBreakdown
    \/ QueryGetDetailData

SpecSession == InitSession /\ [][NextSession]_vars

FilterByDepartment ==
    /\ call = NoCall
    /\ \E d \in DeptArgs :
          /\ call' = [op |-> "filter_by_department", dept_code |-> d]
          /\ result' = Return(filter_by_department(pdf[1], d))
    /\ UNCHANGED <<loaderVars, pdf, app>>

\* processor.filter_by_period(year_month)
FilterByPeriod ==
    /\ call = NoCall
    /\ \E p \in PeriodArgs :
          /\ call' = [op |-> "filter_by_period", year_month |-> p]
          /\ result' = Return(filter_by_period(pdf[1], p))
    /\ UNCHANGED <<loaderVars, pdf, app>>

NextFilter ==
    \/ FilterByDepartment
    \/ FilterByPeriod
    \/ CalculateKpi
    \/ GetCostStructure
    \/ GetSgaBreakdown
    \/ GetDetailData

SpecFilter == InitTab /\ [][NextFilter]_vars

\* The queries that take a department and a period.
FilteringOps ==
    {"calculate_kpi", "get_cost_structure", "get_sga_breakdown",
     "get_detail_data"}

\* The Ledger cut down to the rows that satisfy both conditions of the
\* call, in Ledger order.
Conjunction ==
    [cols |-> pdf[1].cols,
     rows |-> SelectSeq(pdf[1].rows,
                LAMBDA r : /\ call.dept_code # None
                               => r.dept_code = call.dept_code[1]
                           /\ call.year_month # None
                               => r.year_month = call.year_month)]

\* C26: filter_by_department(c) returns the Ledger rows whose dept_code is
\* c, in Ledger order, and the whole Ledger when c is null;
\* filter_by_period(p) likewise for the period; calculate_kpi,
\* get_cost_structure, get_sga_breakdown and get_detail_data with a
\* department and a period give what they give, without filters, on the
\* Ledger cut down to the rows that satisfy both conditions.
C26_FiltersSelectAndCompose ==
    /\ call.op = "filter_by_department" =>
          /\ result.raised = "none"
          /\ result.value[1].cols = pdf[1].cols
          /\ result.value[1].rows
                = SelectSeq(pdf[1].rows,
                    LAMBDA r : call.dept_code # None
                                   => r.dept_code = call.dept_code[1])
    /\ call.op = "filter_by_period" =>
          /\ result.raised = "none"
          /\ result.value[1].cols = pdf[1].cols
          /\ result.value[1].rows
                = SelectSeq(pdf[1].rows,
                    LAMBDA r : call.year_month # None
                                   => r.year_month = call.year_month)
    /\ call.op \in FilteringOps =>
          result = Answer(Conjunction,
                          [call EXCEPT !.dept_code = None,
                                       !.year_month = None])

\* C26 witness: a query with a department and a period over a Ledger that
\* has a row of the department in another period, a row of the period in
\* another department and a row of both; the result is not that of the
\* whole Ledger.
C26_Witness ==
    /\ call.op = "get_detail_data"
    /\ call.dept_code # None
    /\ call.year_month # None
    /\ result.raised = "none"
    /\ Len(result.value[1].rows) = 1
    /\ \E i, j \in 1..Len(pdf[1].rows) :
          /\ pdf[1].rows[i].dept_code = call.dept_code[1]
          /\ pdf[1].rows[i].year_month # call.year_month
          /\ pdf[1].rows[i].report_type = call.output_type
          /\ pdf[1].rows[j].dept_code # call.dept_code[1]
          /\ pdf[1].rows[j].year_month = call.year_month
          /\ pdf[1].rows[j].report_type = call.output_type

(***************************************************************************)
(* calculate_kpi for a department over all periods (specification SpecKpi).*)
(***************************************************************************)
\* The rows are in the order of their source files' names, as load_all
\* concatenates them.
InFileOrder(rows) ==
    \A i, j \in 1..Len(rows) :
        i < j => ~TextLess(rows[j].source_file, rows[i].source_file)

ALL_PERIODS == Str(<<"a", "l", "l">>)
NO_DATA == Str(<<"n", "o", "n", "e">>)
ALL_DEPARTMENTS == "all_departments"
NO_DEPARTMENTS == "none"
INCOME_STATEMENT == "income_statement"
KYOTSU == "Kyotsu"

\* A line of a monthly file.
AppLine(dept, name, type, code, account, bal) ==
    [dept_code |-> dept, dept_name |-> name, report_type |-> type,
     account_code |-> code, account_name |-> account,
     prior_balance |-> Some(0), debit |-> Some(0), credit |-> Some(bal),
     balance |-> Some(bal), start_period |-> None]

\* A monthly file of one department with a revenue line, an SGA item and a
\* line of the cost breakdown.
MonthOf(dept, name) ==
    Csv(<<AppLine(dept, name, 0, 4199, "revenue", 1),
          AppLine(dept, name, 0, 6100, "sga_item_a", 1),
          AppLine(dept, name, 1, 5419, "material_cost", 1)>>)

\* The data folder: one month of a department; a second month, of another
\* department, as well; no file.
AppFolders ==
    {[n \in {Name_2025_07} |-> MonthOf(210, "Kenki")],
     [n \in {Name_2025_07, Name_2025_08} |->
         IF n = Name_2025_07 THEN MonthOf(210, "Kenki")
         ELSE MonthOf(220, "Infra")],
     <<>>}

\* DataProcessor(df): a new instance; id tells the instances apart.
DataProcessor(id, df) == [id |-> id, df |-> df]

Views == {"dashboard", "department_view", "cost_view", "detail_view"}

\* An id that no instance the window or a view holds has.
new_id(a) ==
    LET held == {a.processor.id} \cup {a[v].processor.id : v \in Views}
    IN CHOOSE n \in 0..5 :
          /\ n \notin held
          /\ \A m \in 0..(n - 1) : m \in held

\* The first exception of a sequence of outcomes, or "none".
RECURSIVE FirstRaised(_)
FirstRaised(s) ==
    IF s = <<>> THEN "none"
    ELSE IF s[1] # "none" THEN s[1]
    ELSE FirstRaised(Tail(s))

\* frame[frame[dept_name] != KYOTSU] over the frame a query returned: a
\* KeyError when the frame has no such column.
without_kyotsu(res) ==
    IF res.raised # "none" THEN res.raised
    ELSE IF "dept_name" \notin res.value[1].cols THEN "KeyError"
    ELSE "none"

\* DashboardView.refresh(year_month)
DashboardView_refresh(view, year_month) ==
    LET df == view.processor.df
    IN [view |-> [view EXCEPT !.queried =
                      Some([processor |-> view.processor.id,
                            year_month |-> year_month])],
        raised |-> FirstRaised(<<
            calculate_kpi(df, None, year_month).raised,
            without_kyotsu(get_department_breakdown(df, year_month))>>),
        read |-> FALSE]

\* DepartmentView._update_dept_combo
_update_dept_combo(view, departments) ==
    IF departments # <<>>
    THEN LET kept == SelectSeq(departments, LAMBDA d : d[2] # KYOTSU)
             values == [i \in 1..Len(kept) |-> kept[i][2]]
         IN IF values # <<>>
            THEN [view EXCEPT !.departments = kept,
                              !.dept_values = values,
                              !.dept_var = values[1],
                              !.selected_dept_code = Some(kept[1][1])]
            ELSE [view EXCEPT !.departments = kept,
                              !.dept_values = values]
    ELSE [view EXCEPT !.departments = <<>>,
                      !.dept_values = <<NO_DEPARTMENTS>>,
                      !.dept_var = NO_DEPARTMENTS]

\* The trend of DepartmentView.refresh: it asks the Loader for its periods
\* once the KPI of the department is there.
DepartmentView_trend(kpi_raised, periods) ==
    [raised |-> FirstRaised(<<kpi_raised, periods.raised>>),
     read |-> kpi_raised = "none"]

\* DepartmentView.refresh(year_month); periods is what loader.get_periods()
\* gives.
DepartmentView_refresh(view, periods, year_month) ==
    IF view.selected_dept_code = None
    THEN [view |-> view, raised |-> "none", read |-> FALSE]
    ELSE [view |-> [view EXCEPT !.queried =
                       Some([processor |-> view.processor.id,
                             dept_code |-> view.selected_dept_code,
                             year_month |-> year_month])]]
         @@ DepartmentView_trend(
                calculate_kpi(view.processor.df, view.selected_dept_code,
                              year_month).raised,
                periods)

\* CostAnalysisView._update_sga_summary over the frame get_sga_breakdown
\* returned: an AttributeError when the frame is empty.
_update_sga_summary(res) ==
    IF res.raised # "none" THEN res.raised
    ELSE IF res.value[1].rows = <<>> THEN "AttributeError"
    ELSE "none"

\* CostAnalysisView.refresh(year_month)
CostAnalysisView_refresh(view, year_month) ==
    LET df == view.processor.df
    IN [view |-> [view EXCEPT !.queried =
                      Some([processor |-> view.processor.id,
                            year_month |-> year_month])],
        raised |-> FirstRaised(<<
            get_cost_structure(df, None, year_month).raised,
            without_kyotsu(get_cost_breakdown_by_dept(df, year_month)),
            calculate_kpi(df, None, year_month).raised,
            _update_sga_summary(get_sga_breakdown(df, None, year_month))>>),
        read |-> FALSE]

\* DetailView._update_filter_combos
_update_filter_combos(view, departments, periods) ==
    LET named == [view EXCEPT !.dept_values =
                     <<ALL_DEPARTMENTS>>
                        \o [i \in 1..Len(departments) |-> departments[i][2]]]
    IN IF periods.raised # "none" THEN named
       ELSE [named EXCEPT !.period_values =
                <<ALL_PERIODS>> \o periods.value[1]]

\* DetailView._get_selected_dept_code
_get_selected_dept_code(view, departments) ==
    IF view.dept_var = ALL_DEPARTMENTS THEN None
    ELSE LET at == {i \in 1..Len(departments) :
                       departments[i][2] = view.dept_var}
         IN IF at = {} THEN None ELSE Some(departments[Min(at)][1])

\* DetailView._get_selected_period
_get_selected_period(view) ==
    IF view.period_var = ALL_PERIODS THEN None ELSE Some(view.period_var)

\* DetailView._get_selected_output_type
_get_selected_output_type(view) ==
    IF view.output_var = INCOME_STATEMENT THEN 0 ELSE 1

\* DetailView.refresh(year_month), the period selector set
DetailView_query(view, dept_code, period, output_type) ==
    [view |-> [view EXCEPT !.queried =
                  Some([processor |-> view.processor.id,
                        dept_code |-> dept_code,
                        year_month |-> period,
                        output_type |-> output_type])],
     raised |-> get_detail_data(view.processor.df, dept_code, period,
                                output_type).raised,
     read |-> view.dept_var # ALL_DEPARTMENTS]

\* DetailView.refresh(year_month)
DetailView_refresh(view, departments, year_month) ==
    LET set == IF year_month = None THEN view
               ELSE IF year_month[1] \in Range(view.period_values)
               THEN [view EXCEPT !.period_var = year_month[1]]
               ELSE [view EXCEPT !.period_var = ALL_PERIODS]
    IN DetailView_query(set, _get_selected_dept_code(set, departments),
                     _get_selected_period(set),
                     _get_selected_output_type(set))

\* One refresh call of a handler: an exception that an earlier call raised
\* has ended the handler.
Refreshed(a, name, r) ==
    IF a.raised # "none" THEN a
    ELSE [a EXCEPT ![name] = r.view, !.raised = r.raised,
                   !.read = @ \/ r.read]

\* The four refresh calls of a handler, in its order.
RefreshAll(a, departments, periods, year_month) ==
    Refreshed(
        Refreshed(
            Refreshed(
                Refreshed(a, "dashboard",
                          DashboardView_refresh(a.dashboard, year_month)),
                "department_view",
                DepartmentView_refresh(a.department_view, periods,
                                       year_month)),
            "cost_view",
            CostAnalysisView_refresh(a.cost_view, year_month)),
        "detail_view",
        DetailView_refresh(a.detail_view, departments, year_month))

\* Application._update_period_combo
_update_period_combo(a, periods) ==
    IF periods.raised # "none" THEN [a EXCEPT !.raised = periods.raised]
    ELSE IF periods.value[1] # <<>>
    THEN [a EXCEPT !.period_values = <<ALL_PERIODS>> \o periods.value[1],
                   !.period_var = ALL_PERIODS]
    ELSE [a EXCEPT !.period_values = <<NO_DATA>>,
                   !.period_var = NO_DATA]

\* The window of Application.__init__ before its widgets are created.
NewWindow(processor) ==
    [status |-> "running", last |-> "init", raised |-> "none",
     read |-> TRUE, processor |-> processor,
     period_values |-> <<>>, period_var |-> ALL_PERIODS,
     dashboard |-> [processor |-> processor, queried |-> None],
     department_view |->
         [processor |-> processor, departments |-> <<>>,
          dept_values |-> <<>>, dept_var |-> "",
          selected_dept_code |-> None, queried |-> None],
     cost_view |-> [processor |-> processor, queried |-> None],
     detail_view |->
         [processor |-> processor, dept_values |-> <<>>,
          period_values |-> <<>>, dept_var |-> ALL_DEPARTMENTS,
          period_var |-> ALL_PERIODS, output_var |-> INCOME_STATEMENT,
          queried |-> None]]

\* DetailView.__init__: _update_filter_combos has asked the Loader for its
\* periods before the first refresh.
DetailView_init(view, departments, periods) ==
    [DetailView_refresh(_update_filter_combos(view, departments, periods),
                        departments, None)
        EXCEPT !.raised = FirstRaised(<<periods.raised, @>>)]

\* Application._create_notebook: the constructors of the four views, each
\* ending in its first refresh.
_create_notebook(a, departments, periods) ==
    Refreshed(
        Refreshed(
            Refreshed(
                Refreshed(a, "dashboard",
                          DashboardView_refresh(a.dashboard, None)),
                "department_view",
                DepartmentView_refresh(
                    _update_dept_combo(a.department_view, departments),
                    periods, None)),
            "cost_view",
            CostAnalysisView_refresh(a.cost_view, None)),
        "detail_view",
        DetailView_init(a.detail_view, departments, periods))

\* The end of Application.__init__: an exception in the constructor ends
\* the program, otherwise the header's period selector is filled.
Constructed(a, periods) ==
    IF a.raised # "none"
    THEN [status |-> "crashed", raised |-> a.raised]
    ELSE _update_period_combo(a, periods)

\* Application.__init__ over the Ledger that loader.df returned
Application_init(df, departments) ==
    Constructed(_create_notebook(NewWindow(DataProcessor(0, df)),
                                 departments, get_periods(df)),
                get_periods(df))

\* Mutant of assign_processor: the view keeps the processor it has.
keep_processor(view, processor) == view

\* view.processor = self.processor
assign_processor(view, processor) == [view EXCEPT !.processor = processor]

\* Application._on_period_change, the selection made
_on_period_change(a, departments, periods) ==
    RefreshAll([a EXCEPT !.last = "period_change", !.raised = "none",
                         !.read = FALSE],
               departments, periods,
               IF a.period_var = ALL_PERIODS THEN None
               ELSE Some(a.period_var))

\* The period _refresh_data passes on for the header's selection.
SelectedPeriod(a) ==
    IF a.period_var \in {ALL_PERIODS, NO_DATA} THEN None
    ELSE Some(a.period_var)

\* Application._refresh_data over the Ledger that reload() built
_refresh_data(a, df, departments) ==
    LET processor == DataProcessor(new_id(a), df)
        a2 == _update_period_combo(
                  [a EXCEPT
                     !.last = "refresh", !.raised = "none", !.read = TRUE,
                     !.processor = processor,
                     !.dashboard = assign_processor(@, processor),
                     !.department_view = assign_processor(@, processor),
                     !.cost_view = assign_processor(@, processor),
                     !.detail_view = assign_processor(@, processor)],
                  get_periods(df))
    IN RefreshAll(a2, departments, get_periods(df), SelectedPeriod(a2))

\* A handler that read loader.df, which is cached once the window is up.
LoaderRead(read) ==
    /\ lastOp' = IF read THEN "df" ELSE lastOp
    /\ UNCHANGED <<dirExists, files, _df, _loaded_files, nloads, lazyLoads,
                   scanned>>

\* app = Application()
Start ==
    /\ app = NotStarted
    /\ ReadDf
    /\ \E departments \in get_departments(_df'[1]) :
          app' = Application_init(_df'[1], departments)
    /\ UNCHANGED aggVars

\* The user picks a period in the header.
OnPeriodChange ==
    /\ app.status = "running"
    /\ \E selected \in Range(app.period_values),
          departments \in get_departments(_df[1]) :
          app' = _on_period_change([app EXCEPT !.period_var = selected],
                                   departments, get_periods(_df[1]))
    /\ LoaderRead(app'.read)
    /\ UNCHANGED aggVars

\* The user presses the refresh button.
RefreshData ==
    /\ app.status = "running"
    /\ RunLoadAll(<<>>)
    /\ lastOp' = "df"
    /\ \E departments \in get_departments(_df'[1]) :
          app' = _refresh_data(app, _df'[1], departments)
    /\ UNCHANGED <<lazyLoads, aggVars>>

\* DepartmentView._on_dept_change, the selection made
_on_dept_change(a, periods) ==
    LET view == a.department_view
        at == {i \in 1..Len(view.departments) :
                  view.departments[i][2] = view.dept_var}
        picked == IF at = {} THEN view
                  ELSE [view EXCEPT !.selected_dept_code =
                           Some(view.departments[Min(at)][1])]
    IN Refreshed([a EXCEPT !.last = "dept_change", !.raised = "none",
                           !.read = FALSE],
                 "department_view",
                 DepartmentView_refresh(picked, periods, None))

\* The user picks a department in the department view.
OnDeptChange ==
    /\ app.status = "running"
    /\ \E selected \in Range(app.department_view.dept_values) :
          app' = _on_dept_change(
                    [app EXCEPT !.department_view.dept_var = selected],
                    get_periods(_df[1]))
    /\ LoaderRead(app'.read)
    /\ UNCHANGED aggVars

\* DetailView._apply_filter, the selection made
_apply_filter(a, departments) ==
    Refreshed([a EXCEPT !.last = "apply_filter", !.raised = "none",
                        !.read = FALSE],
              "detail_view",
              DetailView_refresh(a.detail_view, departments, None))

\* The user picks a department in the detail view.
OnDetailDeptSelected ==
    /\ app.status = "running"
    /\ \E selected \in Range(app.detail_view.dept_values),
          departments \in get_departments(_df[1]) :
          app' = _apply_filter(
                    [app EXCEPT !.detail_view.dept_var = selected],
                    departments)
    /\ LoaderRead(app'.read)
    /\ UNCHANGED aggVars

\* The user picks a period in the detail view.
OnDetailPeriodSelected ==
    /\ app.status = "running"
    /\ \E selected \in Range(app.detail_view.period_values),
          departments \in get_departments(_df[1]) :
          app' = _apply_filter(
                    [app EXCEPT !.detail_view.period_var = selected],
                    departments)
    /\ LoaderRead(app'.read)
    /\ UNCHANGED aggVars

\* The monthly files of the data folder are replaced while the window is
\* up.
ChangeFolder ==
    /\ app.status = "running"
    /\ files' \in AppFolders \ {files}
    /\ UNCHANGED <<dirExists, _df, _loaded_files, lastOp, nloads, lazyLoads,
                   scanned, aggVars, app>>

InitApp ==
    /\ dirExists = TRUE
    /\ files \in AppFolders
    /\ NewLoader
    /\ pdf = None
    /\ call = NoCall
    /\ result = None
    /\ app = NotStarted

NextApp ==
    \/ Start
    \/ OnPeriodChange
    \/ RefreshData
    \/ OnDeptChange
    \/ OnDetailDeptSelected
    \/ OnDetailPeriodSelected
    \/ ChangeFolder

SpecApp == InitApp /\ [][NextApp]_vars

(***************************************************************************)
(* Properties of the Application (specification SpecApp).                  *)
(***************************************************************************)
Running == app.status = "running"

\* The choices a period selector offers for the periods of the Ledger.
PeriodChoices(periods) == <<ALL_PERIODS>> \o periods

\* C27: after _refresh_data has run to its end, the header's and the detail
\* view's period choices are those of the Loader's current get_periods(),
\* and the department choices of the detail view and the departments of
\* the department view are those of the Loader's current get_departments().
C27_ChoicesFollowReload ==
    (Running /\ app.last = "refresh" /\ app.raised = "none") =>
        LET periods == get_periods(_df[1])
        IN /\ periods.raised = "none"
           /\ app.period_values
                 = IF periods.value[1] = <<>> THEN <<NO_DATA>>
                   ELSE PeriodChoices(periods.value[1])
           /\ app.detail_view.period_values
                 = PeriodChoices(periods.value[1])
           /\ \E departments \in get_departments(_df[1]) :
                 /\ app.detail_view.dept_values
                       = <<ALL_DEPARTMENTS>>
                            \o [i \in 1..Len(departments) |->
                                   departments[i][2]]
                 /\ app.department_view.departments
                       = SelectSeq(departments, LAMBDA d : d[2] # KYOTSU)

\* The period a handler passes on for the header's selection.
HeaderPeriod ==
    IF app.period_var = ALL_PERIODS THEN None ELSE Some(app.period_var)

\* C28: once the window is up, the processor of the Application and the
\* processors of the four views are one instance, built over the Ledger
\* the Loader caches; a view that a step refreshes asks that instance.
C28_OneProcessorOverCurrentLedger ==
    [][app'.status = "running" =>
          /\ \A v \in Views : app'[v].processor = app'.processor
          /\ app'.processor.df = _df'[1]
          /\ \A v \in Views :
                (app.status = "off" \/ app'[v].queried # app[v].queried)
                    => \/ app'[v].queried = None
                       \/ app'[v].queried[1].processor = app'.processor.id
      ]_vars

\* C28 witness: a refresh has completed over a Ledger of two periods in a
\* window that was started over one period; the processor is another
\* instance than the first and the detail view has asked it.
C28_Witness ==
    /\ Running
    /\ app.last = "refresh"
    /\ app.raised = "none"
    /\ app.processor.id # 0
    /\ Len(app.period_values) = 3
    /\ Len(app.detail_view.period_values) = 2
    /\ app.detail_view.queried # None
    /\ app.detail_view.queried[1].processor = app.processor.id

\* C30: after _on_period_change has run to its end, every data view has
\* queried for the period selected in the header; for "all periods" that
\* is no period.
C30_ViewsFollowHeaderPeriod ==
    (Running /\ app.last = "period_change" /\ app.raised = "none") =>
        /\ app.dashboard.queried # None
        /\ app.dashboard.queried[1].year_month = HeaderPeriod
        /\ app.cost_view.queried # None
        /\ app.cost_view.queried[1].year_month = HeaderPeriod
        /\ app.department_view.selected_dept_code # None =>
              /\ app.department_view.queried # None
              /\ app.department_view.queried[1].year_month = HeaderPeriod
        /\ app.detail_view.queried # None
        /\ app.detail_view.queried[1].year_month = HeaderPeriod

====
